---- MODULE Spec2Model ----
(***************************************************************************)
(* pr-advisor: the reviewer-suggestion engine (lib/reviewer-suggester.js), *)
(* the CODEOWNERS resolution it rests on, and the comment lifecycle of     *)
(* run() (index.js, lib/utils.js).                                         *)
(*                                                                         *)
(* Strings the code inspects character by character (logins) are tuples    *)
(* of one-character strings, so that toLowerCase, includes and trim are    *)
(* computed, not assumed.  A null / undefined / empty login is <<>>.       *)
(***************************************************************************)
EXTENDS Integers, Sequences, FiniteSets, TLC

VARIABLES
  \* ---- CODEOWNERS resolution (parseCodeowners, ownersForFile)
  coLines,        \* the tokenised lines of an ownership file
  coRules,        \* the rules parseCodeowners returned
  coFile,         \* the path last resolved
  coOwners,       \* the owners ownersForFile returned for coFile
  coPc,           \* "text" | "parsed" | "resolved"
  \* ---- analyzeReviewers: the frozen input data of one pull request
  world,
  \* ---- analyzeReviewers: the locals of the run
  pc, runNo, codeownersRules, fileAuthors, fileIdx, latencyMap, excluded,
  crossRepoExpertise, timezoneData, flakyReviewers,
  rankedRaw,      \* what rankCandidates returned
  rankedKept,     \* after the exclusion filter (line 598)
  rankedLoad,     \* after the load step (lines 601-613)
  ranked,         \* after the flaky step (lines 616-624): the final ranking
  loadApplied,    \* whether the load loop ran (no failure, penalizeLoad)
  result,         \* what analyzeReviewers returned
  prevResult,     \* what the previous run on the same data returned
  \* ---- run(): the comments of the pull request and the runs working on it
  comments,       \* the comments of the pull request, oldest first: [id, kind]
  nextId,         \* the id the next created comment gets
  nAdded,         \* comments other people added since the start
  nRuns,          \* runs of the action started since the start
  rpc, rfound, rmarker,  \* per run: where it is, the comment it found, the old marker it is at
  \* ---- run(): the size section (analyzeSize)
  szInputs,       \* the eight threshold inputs, each <<>> (not a number) or <<n>>
  szFiles,        \* the counted files: [additions, deletions]
  szResult,       \* what analyzeSize returned
  szPc,           \* "input" | "sized"
  \* ---- run(): its inputs, the size label (applySizeLabel), the posting
  lbIn,           \* the inputs of the run: dryRun, addLabel, sweepStale, enableSize, size
  lbLabels,       \* the labels of the pull request
  lbCurrent,      \* currentLabels: what listLabelsOnIssue returned
  lbStale,        \* staleLabels not removed yet
  lbPc,           \* where run() is
  \* ---- listAllPRFiles
  lfIn,           \* the call: total (files of the pull request), maxFiles
  lfFiles,        \* files: what has been collected
  lfPage,         \* page: the next page to request
  lfResps,        \* the length of resp.data of every request made, in order
  lfPc,           \* "idle" | "loop" | "returned"
  \* ---- the state section (analyzeState)
  stIn,           \* the pull request on GitHub and the stale inputs
  stFetched,      \* what run() fetched: reviews, checkRuns
  stAnalysis,     \* what analyzeState returned
  stPc            \* "input" | "fetched" | "analyzed"

ownerVars == <<coLines, coRules, coFile, coOwners, coPc>>
engineVars == <<world, pc, runNo, codeownersRules, fileAuthors, fileIdx, latencyMap,
                excluded, crossRepoExpertise, timezoneData, flakyReviewers,
                rankedRaw, rankedKept, rankedLoad, ranked, loadApplied, result,
                prevResult>>
commentVars == <<comments, nextId, nAdded, nRuns, rpc, rfound, rmarker>>
sizeVars == <<szInputs, szFiles, szResult, szPc>>
labelVars == <<lbIn, lbLabels, lbCurrent, lbStale, lbPc>>
filesVars == <<lfIn, lfFiles, lfPage, lfResps, lfPc>>
stateVars == <<stIn, stFetched, stAnalysis, stPc>>
vars == <<ownerVars, engineVars, commentVars, sizeVars, labelVars, filesVars, stateVars>>

\* ------------------------------------------------------------------ bounds

\* Rules of an ownership file in the resolution specification.
MaxRules == 3
\* Inputs of one run that differ from the base pull request (see Worlds).
MaxVaried == 2
\* Calls of analyzeReviewers on the same data; runs of the action on one
\* pull request.
MaxRuns == 2
\* Comments other people add to the pull request while the action runs.
MaxAdded == 2
\* Counted files of a pull request in the size specification.
MaxFileCount == 31
\* The digits of the prefer_timezone offset.
MaxOffset == 50
\* The most files a pull request has: two full pages of the listing and a
\* part of the third.
MaxTotal == 210
\* The most reviews that follow the older reviews of a pull request.
MaxReviews == 2

\* ------------------------------------------------------------ sequences

Range(s) == {s[i] : i \in DOMAIN s}

RECURSIVE SeqSum(_)
SeqSum(s) == IF s = <<>> THEN 0 ELSE Head(s) + SeqSum(Tail(s))

Max2(a, b) == IF a >= b THEN a ELSE b
Min2(a, b) == IF a <= b THEN a ELSE b

\* Array.prototype.filter
Filter(s, keep(_)) == SelectSeq(s, keep)

\* Array.prototype.slice(0, n)
Slice(s, n) == SubSeq(s, 1, Min2(Len(s), n))

\* Index of the first element equal to x, 0 when absent.
IndexOf(s, x) ==
  IF \E i \in DOMAIN s : s[i] = x
  THEN CHOOSE i \in DOMAIN s : s[i] = x /\ \A j \in 1..(i - 1) : s[j] # x
  ELSE 0

\* -------------------------------------------------------------- strings

UpperChars == <<"A","B","C","D","E","F","G","H","I","J","K","L","M",
                "N","O","P","Q","R","S","T","U","V","W","X","Y","Z">>
LowerChars == <<"a","b","c","d","e","f","g","h","i","j","k","l","m",
                "n","o","p","q","r","s","t","u","v","w","x","y","z">>

LowerChar(c) == IF IndexOf(UpperChars, c) = 0 THEN c ELSE LowerChars[IndexOf(UpperChars, c)]

\* String.prototype.toLowerCase
toLowerCase(s) == [i \in DOMAIN s |-> LowerChar(s[i])]

\* String.prototype.includes
includes(s, sub) ==
  \E i \in 0..(Len(s) - Len(sub)) : SubSeq(s, i + 1, i + Len(sub)) = sub

\* String.prototype.endsWith
endsWith(s, suf) ==
  Len(s) >= Len(suf) /\ SubSeq(s, Len(s) - Len(suf) + 1, Len(s)) = suf

\* String.prototype.trim (the only white space of the inputs is " ")
RECURSIVE trimStart(_)
trimStart(s) == IF s # <<>> /\ Head(s) = " " THEN trimStart(Tail(s)) ELSE s
RECURSIVE trimEnd(_)
trimEnd(s) ==
  IF s # <<>> /\ s[Len(s)] = " " THEN trimEnd(SubSeq(s, 1, Len(s) - 1)) ELSE s
trim(s) == trimEnd(trimStart(s))

StrBot == <<"b","o","t">>
StrBotSuffix == <<"[","b","o","t","]">>
StrGithubActions == <<"g","i","t","h","u","b","-","a","c","t","i","o","n","s">>

\* The logins of the model.  LoginAl and LoginAlLower are one GitHub account
\* (logins are case-insensitive on GitHub): the first is the spelling the API
\* returns, the second what a lower-cased input or a hand-written file holds.
NoLogin == <<>>
LoginAl == <<"A","l">>
LoginAlLower == <<"a","l">>
LoginBo == <<"b","o">>
LoginCy == <<"c","y">>
LoginCyUpper == <<"C","y">>
LoginBot == <<"B","o","t">>
LoginCiBot == <<"c","i","[","b","o","t","]">>

isBotLogin(login) ==
  IF login = NoLogin THEN TRUE
  ELSE LET l == toLowerCase(login)
       IN  endsWith(login, StrBotSuffix) \/ includes(l, StrBot) \/ l = StrGithubActions

\* (s || "").split(",").map(trim + toLowerCase).filter(Boolean); s is given
\* already split at its commas.
parseCommaSeparated(s) ==
  LET NonEmpty(x) == x # <<>>
  IN  Filter([i \in DOMAIN s |-> toLowerCase(trim(s[i]))], NonEmpty)

\* ------------------------------------------------------------ CODEOWNERS

\* A path is the tuple of its segments; a pattern is [anchored, segs], anchored
\* when it was written with a leading "/", its segments literals, "*" or "**".
normalizeCodeownersPattern(pattern) ==
  IF pattern.anchored THEN pattern.segs ELSE <<"**">> \o pattern.segs

\* minimatch on path segments: "**" spans any number of segments, "*" one
\* whole segment (dot: true, so a leading dot is no exception), anything else
\* matches itself (nocase: false).
RECURSIVE globMatch(_, _)
globMatch(f, p) ==
  IF p = <<>> THEN f = <<>>
  ELSE IF Head(p) = "**"
       THEN globMatch(f, Tail(p)) \/ (f # <<>> /\ globMatch(Tail(f), p))
       ELSE /\ f # <<>>
            /\ (Head(p) = "*" \/ Head(p) = Head(f))
            /\ globMatch(Tail(f), Tail(p))

\* minimatch(filePath, pat, { dot: true, nocase: false, matchBase: true }):
\* matchBase matches a pattern without a slash against the base name.
minimatch(filePath, pat) ==
  IF Len(pat) = 1 /\ Len(filePath) > 1
  THEN globMatch(<<filePath[Len(filePath)]>>, pat)
  ELSE globMatch(filePath, pat)

ruleMatches(r, filePath) == minimatch(filePath, normalizeCodeownersPattern(r.pattern))

\* parseCodeowners on tokenised lines [pattern, rawOwners] (comments and blank
\* lines gone, the leading "@" of an owner stripped): bot-like owners are
\* dropped, and so is a rule left without owners.
parseCodeowners(lines) ==
  LET NotBot(o) == ~isBotLogin(o)
      HasOwners(r) == r.owners # <<>>
  IN  Filter([i \in DOMAIN lines |->
                [pattern |-> lines[i].pattern,
                 owners |-> Filter(lines[i].rawOwners, NotBot)]], HasOwners)

\* The loop of ownersForFile: matchedOwners after the rules from i on.
RECURSIVE ownersLoop(_, _, _, _)
ownersLoop(codeownersRules_, filePath, i, matchedOwners) ==
  IF i > Len(codeownersRules_) THEN matchedOwners
  ELSE ownersLoop(codeownersRules_, filePath, i + 1,
                  IF ruleMatches(codeownersRules_[i], filePath)
                  THEN codeownersRules_[i].owners ELSE matchedOwners)

\* The same loop keeping the first match instead of the last.
RECURSIVE ownersLoopFirst(_, _, _, _)
ownersLoopFirst(codeownersRules_, filePath, i, matchedOwners) ==
  IF i > Len(codeownersRules_) THEN matchedOwners
  ELSE ownersLoopFirst(codeownersRules_, filePath, i + 1,
                  IF ruleMatches(codeownersRules_[i], filePath) /\ matchedOwners = <<>>
                  THEN codeownersRules_[i].owners ELSE matchedOwners)

ownersForFileFirstMatch(codeownersRules_, filePath) ==
  ownersLoopFirst(codeownersRules_, filePath, 1, <<>>)

ownersForFile(codeownersRules_, filePath) ==
  IF Len(codeownersRules_) = 0 THEN <<>>
  ELSE ownersLoop(codeownersRules_, filePath, 1, <<>>)

\* --------------------------------------------------------------- fetches

\* One call of the GitHub API made by analyzeReviewers: the stage that makes
\* it and its index among that stage's calls.  world.fails holds the calls
\* that throw.
Call(stage, idx) == [stage |-> stage, idx |-> idx]
Throws(stage, idx) == Call(stage, idx) \in world.fails

\* tryFetchFileText: the text, or null (<<>>) when the file is missing or the
\* request throws (the catch of lines 61-63).
tryFetchFileText(text, stage, idx) == IF Throws(stage, idx) THEN <<>> ELSE text

\* topCommitAuthorsForPath: the non-bot author logins of the commits of a
\* path, one entry per commit, in API order.
topCommitAuthorsForPath(commits) ==
  LET Human(login) == login # NoLogin /\ ~isBotLogin(login)
  IN  Filter([i \in DOMAIN commits |-> commits[i].login], Human)

\* ------------------------------------------------------ insertion-ordered maps

\* A JavaScript Map is the sequence of its entries [key, val] in insertion
\* order; set() on a present key keeps its place.
mapHas(m, k) == \E i \in DOMAIN m : m[i].key = k
mapIdx(m, k) == CHOOSE i \in DOMAIN m : m[i].key = k
mapGet(m, k, dflt) == IF mapHas(m, k) THEN m[mapIdx(m, k)].val ELSE dflt
mapSet(m, k, v) ==
  IF mapHas(m, k) THEN [m EXCEPT ![mapIdx(m, k)].val = v]
  ELSE Append(m, [key |-> k, val |-> v])

\* counts.set(k, (counts.get(k) || 0) + 1) for each key of a list, in order.
RECURSIVE countInto(_, _)
countInto(m, keys) ==
  IF keys = <<>> THEN m
  ELSE countInto(mapSet(m, Head(keys), mapGet(m, Head(keys), 0) + 1), Tail(keys))

RECURSIVE Flatten(_)
Flatten(ss) == IF ss = <<>> THEN <<>> ELSE Head(ss) \o Flatten(Tail(ss))

\* The first occurrence of each element, in order (a Set's iteration order).
RECURSIVE Dedup(_)
Dedup(s) ==
  IF s = <<>> THEN <<>>
  ELSE LET init == Dedup(SubSeq(s, 1, Len(s) - 1))
       IN  IF s[Len(s)] \in Range(init) THEN init ELSE Append(init, s[Len(s)])

\* A sort that puts each entry before those of equal score.
RECURSIVE sortTiesReversed(_)
sortTiesReversed(s) ==
  IF s = <<>> THEN <<>>
  ELSE LET init == sortTiesReversed(SubSeq(s, 1, Len(s) - 1))
           x == s[Len(s)]
           n == Cardinality({i \in DOMAIN init : init[i].score > x.score})
       IN  SubSeq(init, 1, n) \o <<x>> \o SubSeq(init, n + 1, Len(init))

\* Array.prototype.sort((a, b) => b.score - a.score): stable, so entries of
\* equal score keep their order (insertion of each entry after the last one
\* whose score is not smaller).
RECURSIVE sortByScoreDesc(_)
sortByScoreDesc(s) ==
  IF s = <<>> THEN <<>>
  ELSE LET init == sortByScoreDesc(SubSeq(s, 1, Len(s) - 1))
           x == s[Len(s)]
           n == Cardinality({i \in DOMAIN init : init[i].score >= x.score})
       IN  SubSeq(init, 1, n) \o <<x>> \o SubSeq(init, n + 1, Len(init))

\* Math.round of the non-negative rational num / den: halves round up.
roundDiv(num, den) == (2 * num + den) \div (2 * den)

\* --------------------------------------------------------- review latency

\* median() of a non-empty list of whole hours, doubled so that the mean of
\* the two middle values stays an integer.
RECURSIVE sortAsc(_)
sortAsc(s) ==
  IF s = <<>> THEN <<>>
  ELSE LET init == sortAsc(SubSeq(s, 1, Len(s) - 1))
           x == s[Len(s)]
           n == Cardinality({i \in DOMAIN init : init[i] <= x})
       IN  SubSeq(init, 1, n) \o <<x>> \o SubSeq(init, n + 1, Len(init))

median2(arr) ==
  LET s == sortAsc(arr)
      mid == Len(s) \div 2
  IN  IF Len(s) % 2 = 1 THEN 2 * s[mid + 1] ELSE s[mid] + s[mid + 1]

\* firstByUser of one pull request: per human reviewer with a submitted
\* review, the earliest submission (in hours after the PR's creation).
RECURSIVE firstByUser(_, _)
firstByUser(m, reviews) ==
  IF reviews = <<>> THEN m
  ELSE LET r == Head(reviews)
           skip == r.login = NoLogin \/ isBotLogin(r.login) \/ ~r.submitted
           better == ~mapHas(m, r.login) \/ r.hours < mapGet(m, r.login, 0)
       IN  firstByUser(IF skip \/ ~better THEN m ELSE mapSet(m, r.login, r.hours),
                       Tail(reviews))

\* perReviewer.get(login).push(hours) for the entries of firstByUser.
RECURSIVE pushHours(_, _)
pushHours(per, firsts) ==
  IF firsts = <<>> THEN per
  ELSE LET e == Head(firsts)
       IN  pushHours(IF e.val < 0 THEN per
                     ELSE mapSet(per, e.key, Append(mapGet(per, e.key, <<>>), e.val)),
                     Tail(firsts))

\* The loop over pulls.data of computeReviewerLatencyHours.
RECURSIVE latencyLoop(_, _, _)
latencyLoop(per, pulls, i) ==
  IF i > Len(pulls) THEN per
  ELSE LET pr == pulls[i]
           skip == ~pr.closed \/ ~pr.inWindow \/ Throws("latencyReviews", i)
       IN  latencyLoop(IF skip THEN per ELSE pushHours(per, firstByUser(<<>>, pr.reviews)),
                       pulls, i + 1)

\* computeReviewerLatencyHours: login -> twice the median of its hours.
computeReviewerLatencyHours(pulls) ==
  LET per == latencyLoop(<<>>, pulls, 1)
  IN  [i \in DOMAIN per |-> [key |-> per[i].key, val |-> median2(per[i].val)]]

\* latencyBonusHours on twice the median.
latencyBonusHours(med2) ==
  IF med2 <= 2 * 4 THEN 6
  ELSE IF med2 <= 2 * 12 THEN 4
  ELSE IF med2 <= 2 * 24 THEN 2
  ELSE IF med2 <= 2 * 48 THEN 1
  ELSE 0

\* ------------------------------------------------------------ review load

\* pulls.list of computeOpenReviewCounts asks for one page of this many open
\* pull requests: no login has more open requests than that.
OpenPageSize == 100

RECURSIVE requestedLogins(_)
requestedLogins(pulls) ==
  IF pulls = <<>> THEN <<>> ELSE Head(pulls) \o requestedLogins(Tail(pulls))

\* computeOpenReviewCounts: per login as the API spells it.
computeOpenReviewCounts(pulls) ==
  LET Named(l) == l # NoLogin
  IN  countInto(<<>>, Filter(requestedLogins(Slice(pulls, OpenPageSize)), Named))

\* The pairs (score, openReviews) at which the IEEE-754 double
\* score * (1 / (1 + openReviews / 3)) falls just below the half it equals
\* exactly, for score <= 100 and openReviews <= OpenPageSize.
FloatBelowHalf ==
  { <<4, 5>>, <<12, 5>>, <<13, 23>>, <<17, 31>>, <<20, 5>>, <<28, 5>>, <<34, 65>>,
    <<36, 5>>, <<37, 71>>, <<39, 23>>, <<44, 5>>, <<49, 95>>, <<52, 5>>, <<60, 5>>,
    <<65, 23>>, <<68, 5>>, <<76, 5>>, <<84, 5>>, <<85, 31>>, <<91, 23>>, <<92, 5>>,
    <<100, 5>> }

\* The load penalty cut off with Math.floor instead of rounded.
loadPenaltyFloor(score, openReviews) == (3 * score) \div (3 + openReviews)

\* Math.round(applyLoadPenalty(score, openReviews)), as line 607 computes it:
\* round(3 score / (3 + openReviews)), one less where the double falls short.
loadPenalty(score, openReviews) ==
  roundDiv(3 * score, 3 + openReviews)
    - (IF <<score, openReviews>> \in FloatBelowHalf THEN 1 ELSE 0)

\* ------------------------------------------------------ reviewer exclusion

\* u.trim().replace(/^['"]|['"]$/g, "").toLowerCase()
stripQuotes(s) ==
  LET Quote(c) == c = "'" \/ c = "\""
      a == IF s # <<>> /\ Quote(Head(s)) THEN Tail(s) ELSE s
  IN  IF a # <<>> /\ Quote(a[Len(a)]) THEN SubSeq(a, 1, Len(a) - 1) ELSE a

excludeItem(u) == toLowerCase(stripQuotes(trim(u)))

\* The block form: the lines after "exclude:" that are indented "- user"
\* items, up to the next line that starts at column 0.  A line is
\* [kind, indent, items]: kind "inline" (exclude: [a, b]), "excludeKey"
\* (exclude: alone), "item" (- user, items = <<user>>), "key" (another key)
\* or "blank".
RECURSIVE excludeBlock(_, _, _)
excludeBlock(lines, inExclude, acc) ==
  IF lines = <<>> THEN acc
  ELSE LET l == Head(lines)
           opens == l.kind \in {"excludeKey", "inline"}
           isItem == inExclude /\ l.kind = "item" /\ l.indent
           user == excludeItem(l.items[1])
           closes == inExclude /\ l.kind # "blank" /\ ~l.indent
       IN  IF opens THEN excludeBlock(Tail(lines), TRUE, acc)
           ELSE IF isItem
                THEN excludeBlock(Tail(lines), inExclude,
                                  IF user # <<>> THEN acc \cup {user} ELSE acc)
                ELSE excludeBlock(Tail(lines), IF closes THEN FALSE ELSE inExclude, acc)

\* fetchExcludedReviewers: the lower-cased input list, plus the exclude list
\* of .github/reviewer-config.yml (the inline form if the text has one with
\* anything between its brackets, the block form otherwise).
fetchExcludedReviewers(inputExcludes, fileLines) ==
  LET fromInput == {toLowerCase(x) : x \in Range(inputExcludes)}
      text == tryFetchFileText(fileLines, "excludeFile", 1)
      Inline(l) == l.kind = "inline" /\ l.items # <<>>
      inl == Filter(text, Inline)
      fromFile ==
        IF text = <<>> THEN {}
        ELSE IF inl # <<>>
             THEN {excludeItem(u) : u \in Range(inl[1].items)} \ {<<>>}
             ELSE excludeBlock(text, FALSE, {})
  IN  fromInput \cup fromFile

\* --------------------------------------------------- cross-repo expertise

CrossRepoPathCap == 5

\* The calls of fetchCrossRepoExpertise in order: each repo with each of the
\* first five paths.
crossRepoCalls(repos, filePaths) ==
  Flatten([r \in DOMAIN repos |->
             [f \in DOMAIN Slice(filePaths, CrossRepoPathCap) |->
                [repo |-> repos[r], path |-> filePaths[f]]]])

\* fetchCrossRepoExpertise: commits per human login over all the calls that
\* did not throw.
fetchCrossRepoExpertise(repos, filePaths) ==
  LET calls == crossRepoCalls(repos, filePaths)
      Human(login) == login # NoLogin /\ ~isBotLogin(login)
      got == Flatten([i \in DOMAIN calls |->
                        IF Throws("crossRepo", i) THEN <<>>
                        ELSE Filter(world.crossCommits[calls[i].repo][calls[i].path],
                                    Human)])
  IN  countInto(<<>>, got)

\* --------------------------------------------------------------- timezone

\* JavaScript's %: the remainder has the sign of the dividend.
jsRem(a, n) == IF a >= 0 THEN a % n ELSE 0 - ((0 - a) % n)

\* parseTimezoneOffset: tz is <<>> (no input) or <<[prefix, sign, digits]>>,
\* the text up to the digits; /UTC([+-]?\d+)/i finds an offset only after
\* "UTC" in any case.  The result is <<>> (null) or <<offset>>.
parseTimezoneOffset(tz) ==
  IF tz = <<>> THEN <<>>
  ELSE IF toLowerCase(tz[1].prefix) # <<"u","t","c">> THEN <<>>
  ELSE <<IF tz[1].sign = "-" THEN 0 - tz[1].digits ELSE tz[1].digits>>

timezoneBonus(avgHourUTC, preferredOffsetHours) ==
  LET preferredCenterUTC == jsRem(14 - preferredOffsetHours + 24, 24)
      d == avgHourUTC - preferredCenterUTC
      diff == IF d >= 0 THEN d ELSE 0 - d
      wrappedDiff == Min2(diff, 24 - diff)
  IN  IF wrappedDiff <= 4 THEN 3 ELSE IF wrappedDiff <= 8 THEN 1 ELSE 0

\* avgHours of lines 553-569: per login (bots included), the UTC hours of the
\* commits of the paths that have authors.
RECURSIVE hoursInto(_, _)
hoursInto(m, commits) ==
  IF commits = <<>> THEN m
  ELSE LET c == Head(commits)
       IN  hoursInto(IF c.login = NoLogin \/ ~c.dated THEN m
                     ELSE mapSet(m, c.login, Append(mapGet(m, c.login, <<>>), c.hour)),
                     Tail(commits))

timezoneAvgHours(fileAuthors_) ==
  LET got == Flatten([i \in DOMAIN fileAuthors_ |->
                        IF Throws("tzCommits", i) THEN <<>>
                        ELSE world.commits[fileAuthors_[i].path]])
      hours == hoursInto(<<>>, got)
  IN  [i \in DOMAIN hours |->
         [key |-> hours[i].key,
          val |-> roundDiv(SeqSum(hours[i].val), Len(hours[i].val))]]

\* ------------------------------------------------ flaky reviewer detection

FlakyMinRequests == 3

\* pulls.list of detectFlakyReviewers asks for one page of this many open
\* pull requests.
FlakyOpenPageSize == 50

\* reviewedCounts: per lower-cased login, the closed pull requests of the
\* window on which it has any review.
flakyReviewedCounts(pulls) ==
  LET Named(l) == l # NoLogin
      perPR == [i \in DOMAIN pulls |->
                  IF ~pulls[i].inWindow \/ Throws("flakyReviews", i) THEN <<>>
                  ELSE Dedup(Filter([j \in DOMAIN pulls[i].reviews |->
                                       toLowerCase(pulls[i].reviews[j].login)], Named))]
  IN  countInto(<<>>, Flatten(perPR))

\* requestedCounts: per lower-cased login, the open pull requests that
\* request its review.
flakyRequestedCounts(openPulls) ==
  LET Named(l) == l # NoLogin
      all == requestedLogins(Slice(openPulls, FlakyOpenPageSize))
  IN  countInto(<<>>, Filter([i \in DOMAIN all |-> toLowerCase(all[i])], Named))

\* detectFlakyReviewers without the floor on the number of requests.
detectFlakyReviewersNoFloor(closedPulls, openPulls) ==
  LET reviewedCounts == flakyReviewedCounts(closedPulls)
      requestedCounts == flakyRequestedCounts(openPulls)
  IN  {requestedCounts[i].key : i \in
         {j \in DOMAIN requestedCounts :
            mapGet(reviewedCounts, requestedCounts[j].key, 0) < requestedCounts[j].val}}

detectFlakyReviewers(closedPulls, openPulls) ==
  LET reviewedCounts == flakyReviewedCounts(closedPulls)
      requestedCounts == flakyRequestedCounts(openPulls)
  IN  {requestedCounts[i].key : i \in
         {j \in DOMAIN requestedCounts :
            /\ requestedCounts[j].val >= FlakyMinRequests
            /\ mapGet(reviewedCounts, requestedCounts[j].key, 0) < requestedCounts[j].val}}

\* ---------------------------------------------------------------- ranking

\* add() of rankCandidates on the score entries [login, score, reasons], kept
\* in the insertion order of the scores Map; reasons is a Set.
add(entries, prAuthor, login, pts, reason) ==
  IF login = NoLogin \/ isBotLogin(login) THEN entries
  ELSE IF login = prAuthor THEN entries
  ELSE IF \E i \in DOMAIN entries : entries[i].login = login
  THEN LET i == CHOOSE j \in DOMAIN entries : entries[j].login = login
       IN  [entries EXCEPT ![i].score = @ + pts,
                           ![i].reasons = IF reason \in Range(@) THEN @
                                          ELSE Append(@, reason)]
  ELSE Append(entries, [login |-> login, score |-> pts, reasons |-> <<reason>>])

\* add() for each credit [login, pts, reason] of a list, in order.
RECURSIVE addAll(_, _, _)
addAll(entries, prAuthor, credits) ==
  IF credits = <<>> THEN entries
  ELSE addAll(add(entries, prAuthor, Head(credits).login, Head(credits).pts,
                  Head(credits).reason),
              prAuthor, Tail(credits))

Credit(login, pts, reason) == [login |-> login, pts |-> pts, reason |-> reason]

CommitAuthorCap == 10

\* Lines 335-341: per path, the first ten authors get 3, 2, 1, 1, ...
commitCredits(fileAuthors_, weights) ==
  Flatten([f \in DOMAIN fileAuthors_ |->
             [i \in 1..Min2(Len(fileAuthors_[f].authors), CommitAuthorCap) |->
                Credit(fileAuthors_[f].authors[i],
                       Max2(1, 3 - (i - 1)) * weights.commitHistory,
                       "recent commits")]])

\* The ownership signal crediting nobody.
codeownersCreditsNone(codeownersRules_, changedFiles, weights) == <<>>

\* Lines 343-355: each owner of each changed file, once per (owner, file).
codeownersCredits(codeownersRules_, changedFiles, weights) ==
  IF ~(weights.codeowners > 0 /\ Len(codeownersRules_) > 0) THEN <<>>
  ELSE LET Named(o) == o # NoLogin
       IN  Flatten([f \in DOMAIN changedFiles |->
                      LET owners == Dedup(Filter(ownersForFile(codeownersRules_,
                                                               changedFiles[f]), Named))
                      IN  [i \in DOMAIN owners |->
                             Credit(owners[i], weights.codeowners, "CODEOWNERS")]])

\* Lines 357-362; Math.round(medHrs) of a half-hour median rounds up.
latencyCredits(latencyMap_, weights) ==
  IF ~(weights.latency > 0 /\ Len(latencyMap_) > 0) THEN <<>>
  ELSE LET Pays(c) == c.pts > 0
       IN  Filter([i \in DOMAIN latencyMap_ |->
                     Credit(latencyMap_[i].key,
                            latencyBonusHours(latencyMap_[i].val) * weights.latency,
                            "fast reviewer (~"
                              \o ToString((latencyMap_[i].val + 1) \div 2)
                              \o "h median)")], Pays)

CrossRepoPointCap == 5

\* Lines 364-368.
crossRepoCredits(crossRepoExpertise_) ==
  [i \in DOMAIN crossRepoExpertise_ |->
     Credit(crossRepoExpertise_[i].key,
            Min2(crossRepoExpertise_[i].val, CrossRepoPointCap),
            "cross-repo expertise")]

\* Lines 370-375; timezoneData_ is <<>> (null) or <<[preferredOffset, avgHours]>>.
timezoneCredits(timezoneData_) ==
  IF timezoneData_ = <<>> THEN <<>>
  ELSE LET tz == timezoneData_[1]
           Pays(c) == c.pts > 0
       IN  Filter([i \in DOMAIN tz.avgHours |->
                     Credit(tz.avgHours[i].key,
                            timezoneBonus(tz.avgHours[i].val, tz.preferredOffset),
                            "timezone match")], Pays)

\* The required-reviewer step left out.
addRequiredNever(entries, prAuthor, requiredReviewers) == entries

\* The scores Map kept from the previous call.
initialScoresKept == IF prevResult = <<>> THEN <<>> ELSE
  [i \in DOMAIN prevResult[1].ranked |->
     [login |-> prevResult[1].ranked[i].login,
      score |-> prevResult[1].ranked[i].score,
      reasons |-> prevResult[1].ranked[i].reasons]]

\* The scores Map at the start of rankCandidates.
initialScores == <<>>

RequiredFloor == 10
RequiredBoost == 5

\* Lines 377-384: each required login gets the floor when it has no score
\* yet, the boost otherwise.
RECURSIVE addRequired(_, _, _)
addRequired(entries, prAuthor, requiredReviewers) ==
  IF requiredReviewers = <<>> THEN entries
  ELSE LET login == Head(requiredReviewers)
           has == \E i \in DOMAIN entries : entries[i].login = login
           current == IF has
                      THEN entries[CHOOSE i \in DOMAIN entries :
                                     entries[i].login = login].score
                      ELSE 0
           next == IF login = prAuthor \/ isBotLogin(login) THEN entries
                   ELSE add(entries, prAuthor, login,
                            IF current = 0 THEN RequiredFloor ELSE RequiredBoost,
                            "required reviewer")
       IN  addRequired(next, prAuthor, Tail(requiredReviewers))

rankCandidates(a) ==
  LET signals == commitCredits(a.fileAuthors, a.weights)
                   \o codeownersCredits(a.codeownersRules, a.changedFiles, a.weights)
                   \o latencyCredits(a.latencyMap, a.weights)
                   \o crossRepoCredits(a.crossRepoExpertise)
                   \o timezoneCredits(a.timezoneData)
      scored == addAll(initialScores, a.prAuthor, signals)
  IN  sortByScoreDesc(addRequired(scored, a.prAuthor, a.requiredReviewers))

\* ------------------------------------------------------------- confidence

\* computeConfidence deciding Medium on coverage alone.
computeConfidenceNoFloor(ranked_, changedFiles, codeownersRules_, fileAuthors_) ==
  LET n == Len(changedFiles)
      covered == IF Len(fileAuthors_) > 0
                 THEN Min2(n, Max2(1, Len(fileAuthors_))) ELSE 0
  IN  IF n > 0 /\ 4 * covered >= n THEN "Medium" ELSE "Low"

\* The label without the separation of the two top scores.
computeConfidenceNoSeparation(ranked_, changedFiles, codeownersRules_, fileAuthors_) ==
  LET top == IF Len(ranked_) >= 1 THEN ranked_[1].score ELSE 0
      n == Len(changedFiles)
      approx == IF Len(fileAuthors_) > 0
                THEN Min2(n, Max2(1, Len(fileAuthors_))) ELSE 0
      codeownersCovered ==
        Cardinality({f \in Range(changedFiles) :
                       ownersForFile(codeownersRules_, f) # <<>>})
      covered == Max2(approx, codeownersCovered)
  IN  IF top >= 12 /\ n > 0 /\ 2 * covered >= n THEN "High"
      ELSE IF top >= 6 /\ n > 0 /\ 4 * covered >= n THEN "Medium"
      ELSE "Low"

\* computeConfidence; the ratios are compared cross-multiplied:
\* covered / n >= 1/2 as 2 covered >= n, (top - second) / top >= 1/4 as
\* 4 (top - second) >= top.
computeConfidence(ranked_, changedFiles, codeownersRules_, fileAuthors_) ==
  LET top == IF Len(ranked_) >= 1 THEN ranked_[1].score ELSE 0
      second == IF Len(ranked_) >= 2 THEN ranked_[2].score ELSE 0
      n == Len(changedFiles)
      approx == IF Len(fileAuthors_) > 0
                THEN Min2(n, Max2(1, Len(fileAuthors_))) ELSE 0
      \* byFileHasSignal is keyed by path: a path listed twice counts once
      codeownersCovered ==
        Cardinality({f \in Range(changedFiles) :
                       ownersForFile(codeownersRules_, f) # <<>>})
      covered == Max2(approx, codeownersCovered)
      covHalf == n > 0 /\ 2 * covered >= n
      covQuarter == n > 0 /\ 4 * covered >= n
      separated == top > 0 /\ 4 * (top - second) >= top
  IN  IF top >= 12 /\ covHalf /\ separated THEN "High"
      ELSE IF top >= 6 /\ covQuarter THEN "Medium"
      ELSE "Low"

\* ------------------------------------------------- the inputs of a run

F1 == <<"src", "a.js">>
F2 == <<"src", "b.js">>
F3 == <<"README">>
F4 == <<"docs", "README">>
AllPaths == {F1, F2, F3, F4}

Repo1 == <<"r","1">>

Pat(anchored, segs) == [anchored |-> anchored, segs |-> segs]
Line(pattern, rawOwners) == [pattern |-> pattern, rawOwners |-> rawOwners]
Commit(login, hour) == [login |-> login, hour |-> hour, dated |-> TRUE]
Review(login, hours) == [login |-> login, hours |-> hours, submitted |-> TRUE]
Pull(inWindow, reviews) == [closed |-> TRUE, inWindow |-> inWindow, reviews |-> reviews]
YamlLine(kind, indent, items) == [kind |-> kind, indent |-> indent, items |-> items]

\* Each input of analyzeReviewers with the values it takes: the first is the
\* value of the base pull request, the others its variations.

\* files (the pull request's changed files, in API order)
OptChangedFiles == << <<F1, F2>>, <<F1>>, <<F1, F2, F3>> >>
\* config.maxFiles (reviewer_max_files)
OptMaxFiles == <<2, 1>>
\* config.maxReviewers
OptMaxReviewers == <<2, 1>>
\* config.useCodeowners and the text at each of CODEOWNERS_CANDIDATE_PATHS
OptCodeowners ==
  << [use |-> TRUE,
      files |-> << <<Line(Pat(FALSE, <<"*">>), <<LoginCy>>),
                     Line(Pat(FALSE, <<"src", "*">>), <<LoginBo, LoginAlLower, LoginBo>>)>>,
                   <<>>, <<>> >>],
     [use |-> TRUE, files |-> << <<>>, <<>>, <<>> >>],
     [use |-> TRUE,
      files |-> << <<>>,
                   <<Line(Pat(TRUE, <<"src", "a.js">>), <<LoginAl, LoginBot>>),
                     Line(Pat(FALSE, <<"*">>), <<LoginCiBot>>)>>,
                   <<Line(Pat(FALSE, <<"*">>), <<LoginCy>>)>> >>],
     [use |-> FALSE,
      files |-> << <<Line(Pat(FALSE, <<"*">>), <<LoginCy>>)>>, <<>>, <<>> >>] >>
\* the commits of each path within the lookback window, newest first
OptCommits ==
  << [p \in AllPaths |->
        IF p = F1 THEN <<Commit(LoginBo, 13), Commit(LoginAl, 9), Commit(LoginBo, 15),
                         Commit(LoginCy, 2)>>
        ELSE IF p = F2 THEN <<Commit(LoginCy, 3)>>
        ELSE <<>>],
     [p \in AllPaths |-> <<>>],
     [p \in AllPaths |->
        IF p = F1 THEN <<Commit(LoginAl, 14), Commit(LoginBot, 14), Commit(LoginAl, 15),
                         Commit(NoLogin, 1), Commit(LoginCy, 23)>>
        ELSE IF p = F3 THEN <<Commit(LoginBo, 10)>>
        ELSE <<>>] >>
\* config.useLatency
OptUseLatency == <<TRUE, FALSE>>
\* the closed pull requests, most recently updated first, with their reviews
OptClosedPRs ==
  << << Pull(TRUE, <<Review(LoginBo, 2), Review(LoginAl, 30), Review(LoginBo, 1)>>),
        Pull(TRUE, <<Review(LoginBo, 10), Review(LoginBot, 1), Review(LoginCy, 50)>>),
        Pull(FALSE, <<Review(LoginCy, 1)>>) >>,
     <<>>,
     << Pull(TRUE, <<Review(LoginCy, 3), Review(LoginAl, 20)>>) >> >>
\* the exclude_reviewers input, split at its commas
OptExcludeInput == << <<>>, << <<" ","B","o">> >>, << LoginCyUpper, <<" ">> >> >>
\* the lines of .github/reviewer-config.yml
OptExcludeFile ==
  << <<>>,
     << YamlLine("key", FALSE, <<>>),
        YamlLine("inline", FALSE, << <<"'","A","l","'">>, <<" ","b","o">> >>) >>,
     << YamlLine("excludeKey", FALSE, <<>>),
        YamlLine("item", TRUE, <<LoginCyUpper>>),
        YamlLine("blank", FALSE, <<>>),
        YamlLine("key", FALSE, <<>>),
        YamlLine("item", TRUE, <<LoginBo>>) >> >>
\* the cross_repo_list input, split at its commas
OptCrossRepo == << <<>>, << <<"R","1">> >> >>
\* the prefer_timezone input
OptTimezone ==
  << <<>>,
     << [prefix |-> <<"U","T","C">>, sign |-> "+", digits |-> 0] >>,
     << [prefix |-> <<"u","t","c">>, sign |-> "-", digits |-> 11] >> >>
\* the required_reviewers input, split at its commas
OptRequired ==
  << <<>>, <<LoginAl, <<"C","y"," ">> >>, <<LoginBo, LoginBot, <<"d","j">> >> >>
\* config.penalizeLoad
OptPenalizeLoad == <<TRUE, FALSE>>
\* the requested reviewers of each open pull request
OptOpenPRs ==
  << << <<LoginBo, LoginCy>>, <<LoginCy>>, <<LoginBo, LoginAl>>, <<LoginCy, LoginBo>>,
        <<LoginCy>>, <<LoginBo, LoginCy>> >>,
     <<>>,
     << <<LoginAl, LoginCy>>, <<LoginCy>>, <<LoginCy, NoLogin>> >>,
     [i \in 1..(FlakyOpenPageSize + 3) |->
        IF i <= FlakyOpenPageSize THEN <<>> ELSE <<LoginAl>>] >>
\* config.detectFlaky
OptDetectFlaky == <<FALSE, TRUE>>
\* the API calls that throw
OptFails ==
  << {}, {Call("codeowners", 1)}, {Call("commits", 1)}, {Call("commits", 2)},
     {Call("latencyList", 1)}, {Call("latencyReviews", 1)}, {Call("excludeFile", 1)},
     {Call("crossRepo", 1)}, {Call("tzCommits", 1)}, {Call("flakyClosedList", 1)},
     {Call("flakyReviews", 2)}, {Call("flakyOpenList", 1)}, {Call("loadList", 1)} >>

Dims == << OptChangedFiles, OptMaxFiles, OptMaxReviewers, OptCodeowners, OptCommits,
           OptUseLatency, OptClosedPRs, OptExcludeInput, OptExcludeFile, OptCrossRepo,
           OptTimezone, OptRequired, OptPenalizeLoad, OptOpenPRs, OptDetectFlaky,
           OptFails >>

\* The pull request the variations start from: in BusyChoice a repository
\* with an ownership file, commits on the changed paths and review latency on;
\* in QuietChoice one with no ownership rules, no commits and latency off.
BusyChoice == [i \in DOMAIN Dims |-> 1]
QuietChoice == [i \in DOMAIN Dims |-> IF i \in {4, 5, 6} THEN 2 ELSE 1]

\* The choices of one value per input with at most `budget` of them off the
\* value of `center`, from input i on.
RECURSIVE Choices(_, _, _)
Choices(i, budget, center) ==
  IF i > Len(Dims) THEN {<<>>}
  ELSE UNION {{<<k>> \o rest :
                 rest \in Choices(i + 1, IF k = center[i] THEN budget ELSE budget - 1,
                                  center)} :
                k \in (IF budget = 0 THEN {center[i]} ELSE 1..Len(Dims[i]))}

\* the pull request's author
Authors == {LoginAl, LoginBo}

WorldOf(c, author) ==
  [prAuthor |-> author,
   changedFiles |-> OptChangedFiles[c[1]],
   maxFiles |-> OptMaxFiles[c[2]],
   maxReviewers |-> OptMaxReviewers[c[3]],
   useCodeowners |-> OptCodeowners[c[4]].use,
   codeownersFiles |-> OptCodeowners[c[4]].files,
   commits |-> OptCommits[c[5]],
   useLatency |-> OptUseLatency[c[6]],
   closedPRs |-> OptClosedPRs[c[7]],
   excludeInput |-> OptExcludeInput[c[8]],
   excludeFile |-> OptExcludeFile[c[9]],
   crossRepoInput |-> OptCrossRepo[c[10]],
   crossCommits |-> [r \in {Repo1} |->
                       [p \in AllPaths |->
                          IF p = F1 THEN <<LoginCy, LoginCy, LoginCy, LoginCy, LoginCy,
                                           LoginCy, LoginBot>>
                          ELSE IF p = F2 THEN <<LoginAl, LoginBo>>
                          ELSE <<LoginBo>>]],
   preferTimezone |-> OptTimezone[c[11]],
   requiredInput |-> OptRequired[c[12]],
   penalizeLoad |-> OptPenalizeLoad[c[13]],
   openPRs |-> OptOpenPRs[c[14]],
   detectFlaky |-> OptDetectFlaky[c[15]],
   fails |-> OptFails[c[16]]]

\* The pull requests of the model: the two starting ones with at most
\* MaxVaried of their inputs varied.
Worlds == {WorldOf(c, a) : c \in Choices(1, MaxVaried, BusyChoice)
                                 \cup Choices(1, MaxVaried, QuietChoice),
                           a \in Authors}

BaseWorld == WorldOf(BusyChoice, LoginAl)

\* -------------------------------------------------------- analyzeReviewers

\* The config run() builds from the action's inputs (lines 63-75 of run).
excludeReviewersInput == parseCommaSeparated(world.excludeInput)
crossRepoList == parseCommaSeparated(world.crossRepoInput)
requiredReviewers == parseCommaSeparated(world.requiredInput)

weights == [commitHistory |-> 1,
            codeowners |-> IF world.useCodeowners THEN 4 ELSE 0,
            latency |-> IF world.useLatency THEN 1 ELSE 0]

filesToCheck == Slice(world.changedFiles, world.maxFiles)

\* The commit lookup outside any try: its exception ends analyzeReviewers.
onThrowCommitsUncaught(stage, cont) == IF stage = "commits" THEN "aborted" ELSE cont

\* Where analyzeReviewers goes on when a call of `stage` throws: every one is
\* inside a try whose catch logs and carries on at `cont`.
onThrow(stage, cont) == cont

EngineLocalsInit ==
  /\ pc = "codeowners"
  /\ codeownersRules = <<>>
  /\ fileAuthors = <<>>
  /\ fileIdx = 1
  /\ latencyMap = <<>>
  /\ excluded = {}
  /\ crossRepoExpertise = <<>>
  /\ timezoneData = <<>>
  /\ flakyReviewers = {}
  /\ rankedRaw = <<>>
  /\ rankedKept = <<>>
  /\ rankedLoad = <<>>
  /\ ranked = <<>>
  /\ loadApplied = FALSE
  /\ result = <<>>

\* Lines 490-501: the first candidate path with text.
LoadCodeowners ==
  /\ pc = "codeowners"
  /\ LET texts == [k \in 1..3 |->
                     tryFetchFileText(world.codeownersFiles[k], "codeowners", k)]
         found == {k \in 1..3 : texts[k] # <<>>}
         codeownersText == IF found = {} THEN <<>>
                           ELSE texts[CHOOSE k \in found : \A j \in found : k <= j]
     IN  codeownersRules' = IF world.useCodeowners THEN parseCodeowners(codeownersText)
                            ELSE <<>>
  /\ pc' = "commits"
  /\ UNCHANGED <<world, runNo, fileAuthors, fileIdx, latencyMap, excluded,
                 crossRepoExpertise, timezoneData, flakyReviewers, rankedRaw, rankedKept,
                 rankedLoad, ranked, loadApplied, result, prevResult>>
  /\ UNCHANGED <<ownerVars, commentVars, sizeVars, labelVars, filesVars, stateVars>>

\* Lines 506-513: one turn of the loop over filesToCheck.
CommitLookup ==
  /\ pc = "commits"
  /\ fileIdx <= Len(filesToCheck)
  /\ LET path == filesToCheck[fileIdx]
         cont == IF fileIdx = Len(filesToCheck) THEN "latency" ELSE "commits"
     IN  \/ /\ ~Throws("commits", fileIdx)
            /\ LET authors == topCommitAuthorsForPath(world.commits[path])
               IN  fileAuthors' = IF authors # <<>>
                                  THEN Append(fileAuthors, [path |-> path, authors |-> authors])
                                  ELSE fileAuthors
            /\ pc' = cont
         \/ /\ Throws("commits", fileIdx)
            /\ fileAuthors' = fileAuthors
            /\ pc' = onThrow("commits", cont)
  /\ fileIdx' = fileIdx + 1
  /\ UNCHANGED <<world, runNo, codeownersRules, latencyMap, excluded,
                 crossRepoExpertise, timezoneData, flakyReviewers, rankedRaw, rankedKept,
                 rankedLoad, ranked, loadApplied, result, prevResult>>
  /\ UNCHANGED <<ownerVars, commentVars, sizeVars, labelVars, filesVars, stateVars>>

\* Lines 515-526.
Latency ==
  /\ pc = "latency"
  /\ \/ /\ ~world.useLatency
        /\ latencyMap' = <<>>
        /\ pc' = "exclusions"
     \/ /\ world.useLatency
        /\ ~Throws("latencyList", 1)
        /\ latencyMap' = computeReviewerLatencyHours(world.closedPRs)
        /\ pc' = "exclusions"
     \/ /\ world.useLatency
        /\ Throws("latencyList", 1)
        /\ latencyMap' = <<>>
        /\ pc' = onThrow("latency", "exclusions")
  /\ UNCHANGED <<world, runNo, codeownersRules, fileAuthors, fileIdx, excluded,
                 crossRepoExpertise, timezoneData, flakyReviewers, rankedRaw, rankedKept,
                 rankedLoad, ranked, loadApplied, result, prevResult>>
  /\ UNCHANGED <<ownerVars, commentVars, sizeVars, labelVars, filesVars, stateVars>>

\* Lines 528-534.
Exclusions ==
  /\ pc = "exclusions"
  /\ excluded' = fetchExcludedReviewers(excludeReviewersInput, world.excludeFile)
  /\ pc' = "crossRepo"
  /\ UNCHANGED <<world, runNo, codeownersRules, fileAuthors, fileIdx, latencyMap,
                 crossRepoExpertise, timezoneData, flakyReviewers, rankedRaw, rankedKept,
                 rankedLoad, ranked, loadApplied, result, prevResult>>
  /\ UNCHANGED <<ownerVars, commentVars, sizeVars, labelVars, filesVars, stateVars>>

\* Lines 536-547: the paths handed over are all the changed files.
CrossRepo ==
  /\ pc = "crossRepo"
  /\ crossRepoExpertise' = IF Len(crossRepoList) > 0
                           THEN fetchCrossRepoExpertise(crossRepoList, world.changedFiles)
                           ELSE <<>>
  /\ pc' = "timezone"
  /\ UNCHANGED <<world, runNo, codeownersRules, fileAuthors, fileIdx, latencyMap,
                 excluded, timezoneData, flakyReviewers, rankedRaw, rankedKept,
                 rankedLoad, ranked, loadApplied, result, prevResult>>
  /\ UNCHANGED <<ownerVars, commentVars, sizeVars, labelVars, filesVars, stateVars>>

\* Lines 549-577.
Timezone ==
  /\ pc = "timezone"
  /\ LET preferredOffset == parseTimezoneOffset(world.preferTimezone)
     IN  timezoneData' = IF preferredOffset = <<>> THEN <<>>
                         ELSE <<[preferredOffset |-> preferredOffset[1],
                                 avgHours |-> timezoneAvgHours(fileAuthors)]>>
  /\ pc' = "flaky"
  /\ UNCHANGED <<world, runNo, codeownersRules, fileAuthors, fileIdx, latencyMap,
                 excluded, crossRepoExpertise, flakyReviewers, rankedRaw, rankedKept,
                 rankedLoad, ranked, loadApplied, result, prevResult>>
  /\ UNCHANGED <<ownerVars, commentVars, sizeVars, labelVars, filesVars, stateVars>>

\* Lines 579-590.
FlakyDetection ==
  /\ pc = "flaky"
  /\ \/ /\ ~world.detectFlaky
        /\ flakyReviewers' = {}
        /\ pc' = "rank"
     \/ /\ world.detectFlaky
        /\ ~Throws("flakyClosedList", 1) /\ ~Throws("flakyOpenList", 1)
        /\ flakyReviewers' = detectFlakyReviewers(world.closedPRs, world.openPRs)
        /\ pc' = "rank"
     \/ /\ world.detectFlaky
        /\ Throws("flakyClosedList", 1) \/ Throws("flakyOpenList", 1)
        /\ flakyReviewers' = {}
        /\ pc' = onThrow("flaky", "rank")
  /\ UNCHANGED <<world, runNo, codeownersRules, fileAuthors, fileIdx, latencyMap,
                 excluded, crossRepoExpertise, timezoneData, rankedRaw, rankedKept,
                 rankedLoad, ranked, loadApplied, result, prevResult>>
  /\ UNCHANGED <<ownerVars, commentVars, sizeVars, labelVars, filesVars, stateVars>>

\* The filter comparing the login as it is spelled.
excludeFilterCaseSensitive(ranked_, excluded_) ==
  LET Kept(r) == r.login \notin excluded_
  IN  Filter(ranked_, Kept)

\* ranked.filter((r) => !excluded.has(r.login.toLowerCase())) of line 598.
excludeFilter(ranked_, excluded_) ==
  LET Kept(r) == toLowerCase(r.login) \notin excluded_
  IN  Filter(ranked_, Kept)

\* Lines 592-598.
Rank ==
  /\ pc = "rank"
  /\ rankedRaw' = rankCandidates(
       [fileAuthors |-> fileAuthors, prAuthor |-> world.prAuthor,
        codeownersRules |-> codeownersRules, changedFiles |-> filesToCheck,
        latencyMap |-> latencyMap, weights |-> weights,
        crossRepoExpertise |-> crossRepoExpertise, timezoneData |-> timezoneData,
        requiredReviewers |-> requiredReviewers])
  /\ rankedKept' = excludeFilter(rankedRaw', excluded)
  /\ pc' = "load"
  /\ UNCHANGED <<world, runNo, codeownersRules, fileAuthors, fileIdx, latencyMap,
                 excluded, crossRepoExpertise, timezoneData, flakyReviewers,
                 rankedLoad, ranked, loadApplied, result, prevResult>>
  /\ UNCHANGED <<ownerVars, commentVars, sizeVars, labelVars, filesVars, stateVars>>

\* The load penalty without the sort that follows it.
applyLoadUnsorted(ranked_, loadCounts) ==
  [i \in DOMAIN ranked_ |->
    LET openReviews == mapGet(loadCounts, ranked_[i].login, 0)
    IN  [login |-> ranked_[i].login,
         score |-> loadPenalty(ranked_[i].score, openReviews),
         reasons |-> ranked_[i].reasons,
         openReviews |-> openReviews]]

\* The loop of lines 604-608 and the sort of line 609.
applyLoad(ranked_, loadCounts) ==
  sortByScoreDesc([i \in DOMAIN ranked_ |->
    LET openReviews == mapGet(loadCounts, ranked_[i].login, 0)
    IN  [login |-> ranked_[i].login,
         score |-> loadPenalty(ranked_[i].score, openReviews),
         reasons |-> ranked_[i].reasons,
         openReviews |-> openReviews]])

\* Lines 600-613.
Load ==
  /\ pc = "load"
  /\ \/ /\ ~world.penalizeLoad
        /\ rankedLoad' = rankedKept
        /\ loadApplied' = FALSE
        /\ pc' = "flakyPenalty"
     \/ /\ world.penalizeLoad
        /\ ~Throws("loadList", 1)
        /\ rankedLoad' = applyLoad(rankedKept, computeOpenReviewCounts(world.openPRs))
        /\ loadApplied' = TRUE
        /\ pc' = "flakyPenalty"
     \/ /\ world.penalizeLoad
        /\ Throws("loadList", 1)
        /\ rankedLoad' = rankedKept
        /\ loadApplied' = FALSE
        /\ pc' = onThrow("load", "flakyPenalty")
  /\ UNCHANGED <<world, runNo, codeownersRules, fileAuthors, fileIdx, latencyMap,
                 excluded, crossRepoExpertise, timezoneData, flakyReviewers, rankedRaw,
                 rankedKept, ranked, result, prevResult>>
  /\ UNCHANGED <<ownerVars, commentVars, sizeVars, labelVars, filesVars, stateVars>>

\* The halved score cut off instead of rounded.
flakyScoreFloor(score) == score \div 2

\* Math.round(r.score * 0.5)
flakyScore(score) == roundDiv(score, 2)

\* The loop of lines 617-622 and the sort of line 623.
applyFlaky(ranked_, flaky) ==
  sortByScoreDesc([i \in DOMAIN ranked_ |->
    IF toLowerCase(ranked_[i].login) \in flaky
    THEN [ranked_[i] EXCEPT !.score = flakyScore(@),
                            !.reasons = Append(@, "flaky reviewer")]
    ELSE ranked_[i]])

\* Lines 615-624.
FlakyPenalty ==
  /\ pc = "flakyPenalty"
  /\ ranked' = IF flakyReviewers # {} THEN applyFlaky(rankedLoad, flakyReviewers)
               ELSE rankedLoad
  /\ pc' = "finish"
  /\ UNCHANGED <<world, runNo, codeownersRules, fileAuthors, fileIdx, latencyMap,
                 excluded, crossRepoExpertise, timezoneData, flakyReviewers, rankedRaw,
                 rankedKept, rankedLoad, loadApplied, result, prevResult>>
  /\ UNCHANGED <<ownerVars, commentVars, sizeVars, labelVars, filesVars, stateVars>>

\* The cut keeping one candidate too many.
suggestionsOneMore(ranked_, maxReviewers) == Slice(ranked_, maxReviewers + 1)

\* ranked.slice(0, maxReviewers) of line 626.
suggestionsOf(ranked_, maxReviewers) == Slice(ranked_, maxReviewers)

\* Lines 626-627 and the return of line 652.
Finish ==
  /\ pc = "finish"
  /\ result' = <<[suggestions |-> suggestionsOf(ranked, world.maxReviewers),
                  confidence |-> computeConfidence(ranked, filesToCheck,
                                                   codeownersRules, fileAuthors)]>>
  /\ pc' = "done"
  /\ UNCHANGED <<world, runNo, codeownersRules, fileAuthors, fileIdx, latencyMap,
                 excluded, crossRepoExpertise, timezoneData, flakyReviewers, rankedRaw,
                 rankedKept, rankedLoad, ranked, loadApplied, prevResult>>
  /\ UNCHANGED <<ownerVars, commentVars, sizeVars, labelVars, filesVars, stateVars>>

\* The action runs again on the same pull request and the same data: a new
\* call of analyzeReviewers, its locals fresh.
Rerun ==
  /\ pc = "done"
  /\ runNo < MaxRuns
  /\ runNo' = runNo + 1
  /\ prevResult' = <<[returned |-> result[1], ranked |-> ranked]>>
  /\ pc' = "codeowners"
  /\ codeownersRules' = <<>>
  /\ fileAuthors' = <<>>
  /\ fileIdx' = 1
  /\ latencyMap' = <<>>
  /\ excluded' = {}
  /\ crossRepoExpertise' = <<>>
  /\ timezoneData' = <<>>
  /\ flakyReviewers' = {}
  /\ rankedRaw' = <<>>
  /\ rankedKept' = <<>>
  /\ rankedLoad' = <<>>
  /\ ranked' = <<>>
  /\ loadApplied' = FALSE
  /\ result' = <<>>
  /\ UNCHANGED world
  /\ UNCHANGED <<ownerVars, commentVars, sizeVars, labelVars, filesVars, stateVars>>

EngineNext ==
  \/ LoadCodeowners \/ CommitLookup \/ Latency \/ Exclusions \/ CrossRepo
  \/ Timezone \/ FlakyDetection \/ Rank \/ Load \/ FlakyPenalty \/ Finish

\* ------------------------------------------------ ownership resolution

CoLineUniverse ==
  { Line(Pat(FALSE, <<"*">>), <<LoginCy>>),
    Line(Pat(FALSE, <<"src", "*">>), <<LoginBo, LoginAlLower>>),
    Line(Pat(TRUE, <<"src", "a.js">>), <<LoginAl>>),
    Line(Pat(TRUE, <<"README">>), <<LoginBo>>),
    Line(Pat(FALSE, <<"docs", "**">>), <<LoginBot, LoginCy, LoginAl>>),
    Line(Pat(FALSE, <<"*">>), <<LoginCiBot>>) }

CoTexts == UNION {[1..n -> CoLineUniverse] : n \in 0..MaxRules}

OwnerLocalsInit ==
  /\ coRules = <<>>
  /\ coFile = <<>>
  /\ coOwners = <<>>
  /\ coPc = "text"

CoParse ==
  /\ coPc = "text"
  /\ coRules' = parseCodeowners(coLines)
  /\ coPc' = "parsed"
  /\ UNCHANGED <<coLines, coFile, coOwners>>
  /\ UNCHANGED <<engineVars, commentVars, sizeVars, labelVars, filesVars, stateVars>>

CoResolve ==
  /\ coPc \in {"parsed", "resolved"}
  /\ \E f \in AllPaths :
       /\ coFile' = f
       /\ coOwners' = ownersForFile(coRules, f)
  /\ coPc' = "resolved"
  /\ UNCHANGED <<coLines, coRules>>
  /\ UNCHANGED <<engineVars, commentVars, sizeVars, labelVars, filesVars, stateVars>>

OwnersNext == CoParse \/ CoResolve

\* ------------------------------------------------------ the PR's comments

\* listComments asks for one page of this many comments (per_page).
PerPage == 100

\* A comment is [id, kind]: kind says which marker its body holds, "advisor"
\* (MARKER), "legacy1".."legacy3" (OLD_MARKERS) or "other" (none).
OLD_MARKERS == <<"legacy1", "legacy2", "legacy3">>
MARKER == "advisor"

Procs == {1, 2}

Comments(kinds, firstId) ==
  [i \in DOMAIN kinds |-> [id |-> firstId + i - 1, kind |-> kinds[i]]]

\* The comments issues.listComments returns: the first page only.
listComments == Slice(comments, PerPage)

\* comments.data.find((c) => (c.body || "").includes(marker)): the id of the
\* first such comment, 0 when there is none.
findMarker(page, marker) ==
  LET hits == {i \in DOMAIN page : page[i].kind = marker}
  IN  IF hits = {} THEN 0 ELSE page[CHOOSE i \in hits : \A j \in hits : i <= j].id

commentExists(id) == \E i \in DOMAIN comments : comments[i].id = id

removeComment(id) ==
  LET Other(c) == c.id # id
  IN  Filter(comments, Other)

CommentLocalsInit ==
  /\ rpc = [p \in Procs |-> "idle"]
  /\ rfound = [p \in Procs |-> 0]
  /\ rmarker = [p \in Procs |-> 1]

\* Somebody comments on the pull request.
AddComment ==
  /\ nAdded < MaxAdded
  /\ comments' = Append(comments, [id |-> nextId, kind |-> "other"])
  /\ nextId' = nextId + 1
  /\ nAdded' = nAdded + 1
  /\ UNCHANGED <<nRuns, rpc, rfound, rmarker>>
  /\ UNCHANGED <<ownerVars, engineVars, sizeVars, labelVars, filesVars, stateVars>>

\* run() up to line 202 with dry_run off: nothing is written before the
\* cleanup of line 205.
StartRun(p) ==
  /\ rpc[p] = "idle"
  /\ nRuns < MaxRuns
  /\ nRuns' = nRuns + 1
  /\ rpc' = [rpc EXCEPT ![p] = "cleanupList"]
  /\ rmarker' = [rmarker EXCEPT ![p] = 1]
  /\ rfound' = [rfound EXCEPT ![p] = 0]
  /\ UNCHANGED <<comments, nextId, nAdded>>
  /\ UNCHANGED <<ownerVars, engineVars, sizeVars, labelVars, filesVars, stateVars>>

\* run() with dry_run on: it returns at line 201.
DryRun(p) ==
  /\ rpc[p] = "idle"
  /\ nRuns < MaxRuns
  /\ nRuns' = nRuns + 1
  /\ rpc' = [rpc EXCEPT ![p] = "done"]
  /\ UNCHANGED <<comments, nextId, nAdded, rfound, rmarker>>
  /\ UNCHANGED <<ownerVars, engineVars, sizeVars, labelVars, filesVars, stateVars>>

\* cleanupOldComments goes on to the next old marker, or returns.
afterMarker(p) ==
  /\ rpc' = [rpc EXCEPT ![p] = IF rmarker[p] < Len(OLD_MARKERS) THEN "cleanupList"
                                 ELSE "upsertList"]
  /\ rmarker' = [rmarker EXCEPT ![p] = IF rmarker[p] < Len(OLD_MARKERS) THEN @ + 1 ELSE @]

\* deleteCommentByMarker, its listComments (lines 46-53); a throw is caught by
\* cleanupOldComments.
CleanupList(p) ==
  /\ rpc[p] = "cleanupList"
  /\ \/ /\ findMarker(listComments, OLD_MARKERS[rmarker[p]]) # 0
        /\ rfound' = [rfound EXCEPT ![p] = findMarker(listComments, OLD_MARKERS[rmarker[p]])]
        /\ rpc' = [rpc EXCEPT ![p] = "cleanupDelete"]
        /\ UNCHANGED rmarker
     \/ /\ findMarker(listComments, OLD_MARKERS[rmarker[p]]) = 0
        /\ afterMarker(p)
        /\ UNCHANGED rfound
     \/ /\ afterMarker(p)       \* listComments throws
        /\ UNCHANGED rfound
  /\ UNCHANGED <<comments, nextId, nAdded, nRuns>>
  /\ UNCHANGED <<ownerVars, engineVars, sizeVars, labelVars, filesVars, stateVars>>

\* deleteCommentByMarker, its deleteComment (lines 54-62); a throw (the
\* comment is gone, the request fails) is caught by cleanupOldComments.
CleanupDelete(p) ==
  /\ rpc[p] = "cleanupDelete"
  /\ \/ /\ commentExists(rfound[p])
        /\ comments' = removeComment(rfound[p])
     \/ /\ comments' = comments   \* deleteComment throws
  /\ afterMarker(p)
  /\ UNCHANGED <<nextId, nAdded, nRuns, rfound>>
  /\ UNCHANGED <<ownerVars, engineVars, sizeVars, labelVars, filesVars, stateVars>>

\* upsertComment, its listComments and find (lines 18-25); a throw reaches the
\* catch of run(), which fails the run.
UpsertList(p) ==
  /\ rpc[p] = "upsertList"
  /\ \/ /\ findMarker(listComments, MARKER) # 0
        /\ rfound' = [rfound EXCEPT ![p] = findMarker(listComments, MARKER)]
        /\ rpc' = [rpc EXCEPT ![p] = "upsertUpdate"]
     \/ /\ findMarker(listComments, MARKER) = 0
        /\ rfound' = [rfound EXCEPT ![p] = 0]
        /\ rpc' = [rpc EXCEPT ![p] = "upsertCreate"]
     \/ /\ rpc' = [rpc EXCEPT ![p] = "failed"]   \* listComments throws
        /\ UNCHANGED rfound
  /\ UNCHANGED <<comments, nextId, nAdded, nRuns, rmarker>>
  /\ UNCHANGED <<ownerVars, engineVars, sizeVars, labelVars, filesVars, stateVars>>

\* upsertComment, its updateComment (lines 26-33): the body is replaced by one
\* that holds MARKER again.
UpsertUpdate(p) ==
  /\ rpc[p] = "upsertUpdate"
  /\ \/ /\ commentExists(rfound[p])
        /\ rpc' = [rpc EXCEPT ![p] = "done"]
     \/ /\ rpc' = [rpc EXCEPT ![p] = "failed"]   \* updateComment throws
  /\ UNCHANGED <<comments, nextId, nAdded, nRuns, rfound, rmarker>>
  /\ UNCHANGED <<ownerVars, engineVars, sizeVars, labelVars, filesVars, stateVars>>

\* upsertComment, its createComment (lines 36-42).
UpsertCreate(p) ==
  /\ rpc[p] = "upsertCreate"
  /\ \/ /\ comments' = Append(comments, [id |-> nextId, kind |-> MARKER])
        /\ nextId' = nextId + 1
        /\ rpc' = [rpc EXCEPT ![p] = "done"]
     \/ /\ rpc' = [rpc EXCEPT ![p] = "failed"]   \* createComment throws
        /\ UNCHANGED <<comments, nextId>>
  /\ UNCHANGED <<nAdded, nRuns, rfound, rmarker>>
  /\ UNCHANGED <<ownerVars, engineVars, sizeVars, labelVars, filesVars, stateVars>>

\* The workflow run is over; the next event on the pull request starts another.
EndRun(p) ==
  /\ rpc[p] \in {"done", "failed"}
  /\ rpc' = [rpc EXCEPT ![p] = "idle"]
  /\ UNCHANGED <<comments, nextId, nAdded, nRuns, rfound, rmarker>>
  /\ UNCHANGED <<ownerVars, engineVars, sizeVars, labelVars, filesVars, stateVars>>

\* One run at a time (the workflow's runs on a pull request do not overlap).
Alone(p) == \A q \in Procs \ {p} : rpc[q] = "idle"

CommentsNext ==
  \/ AddComment
  \/ \E p \in Procs :
       \/ Alone(p) /\ StartRun(p)
       \/ Alone(p) /\ DryRun(p)
       \/ CleanupList(p) \/ CleanupDelete(p)
       \/ UpsertList(p) \/ UpsertUpdate(p) \/ UpsertCreate(p)
       \/ EndRun(p)

\* ------------------------------------------------------------ PR size

\* clampInt(val, def, min, max); val is <<>> when parseInt gives NaN (an
\* input left empty or not a number), <<n>> otherwise.
clampInt(val, def, min, max) ==
  IF val = <<>> THEN def ELSE Max2(min, Min2(max, val[1]))

SIZE_ORDER == <<"XS", "S", "M", "L", "XL">>

\* SIZE_ORDER.indexOf(a), from 1.
sizeIndexOf(a) == CHOOSE i \in DOMAIN SIZE_ORDER : SIZE_ORDER[i] = a

\* bucketByThresholds: the name of the first threshold the value does not
\* exceed, "XL" when it exceeds them all.
RECURSIVE bucketByThresholds(_, _)
bucketByThresholds(value, thresholds) ==
  IF thresholds = <<>> THEN "XL"
  ELSE IF value <= Head(thresholds).max THEN Head(thresholds).name
  ELSE bucketByThresholds(value, Tail(thresholds))

\* The smaller of two buckets.
minBucket(a, b) == SIZE_ORDER[Min2(sizeIndexOf(a), sizeIndexOf(b))]

maxBucket(a, b) == SIZE_ORDER[Max2(sizeIndexOf(a), sizeIndexOf(b))]

\* The thresholds run() reads: each lower bound is the threshold before it.
sizeThresholds(in) ==
  LET xsLines == clampInt(in[1], 50, 1, 1000000)
      sLines == clampInt(in[2], 200, xsLines, 1000000)
      mLines == clampInt(in[3], 500, sLines, 1000000)
      lLines == clampInt(in[4], 1000, mLines, 1000000)
      xsFiles == clampInt(in[5], 2, 1, 1000000)
      sFiles == clampInt(in[6], 5, xsFiles, 1000000)
      mFiles == clampInt(in[7], 15, sFiles, 1000000)
      lFiles == clampInt(in[8], 30, mFiles, 1000000)
  IN  [xsLines |-> xsLines, sLines |-> sLines, mLines |-> mLines, lLines |-> lLines,
       xsFiles |-> xsFiles, sFiles |-> sFiles, mFiles |-> mFiles, lFiles |-> lFiles]

analyzeSize(files, thresholds) ==
  LET additions == SeqSum([i \in DOMAIN files |-> files[i].additions])
      deletions == SeqSum([i \in DOMAIN files |-> files[i].deletions])
      fileCount == Len(files)
      totalChanged == additions + deletions
      lineBucket == bucketByThresholds(totalChanged,
                      << [name |-> "XS", max |-> thresholds.xsLines],
                         [name |-> "S", max |-> thresholds.sLines],
                         [name |-> "M", max |-> thresholds.mLines],
                         [name |-> "L", max |-> thresholds.lLines] >>)
      fileBucket == bucketByThresholds(fileCount,
                      << [name |-> "XS", max |-> thresholds.xsFiles],
                         [name |-> "S", max |-> thresholds.sFiles],
                         [name |-> "M", max |-> thresholds.mFiles],
                         [name |-> "L", max |-> thresholds.lFiles] >>)
  IN  [additions |-> additions, deletions |-> deletions, fileCount |-> fileCount,
       totalChanged |-> totalChanged, size |-> maxBucket(lineBucket, fileBucket)]

\* The line and file threshold inputs: left empty, given in order, given out
\* of order, and the first one alone above the default of the second.
SizeLineInputs ==
  { << <<>>, <<>>, <<>>, <<>> >>,
    << <<10>>, <<5>>, <<30>>, <<40>> >>,
    << <<300>>, <<>>, <<>>, <<>> >> }
SizeFileInputs ==
  { << <<>>, <<>>, <<>>, <<>> >>,
    << <<1>>, <<2>>, <<3>>, <<4>> >>,
    << <<6>>, <<>>, <<>>, <<>> >> }

\* The added and deleted lines of each file.
SizeLineChoices == {0, 5, 17, 100} \X {0, 8}

SizeLocalsInit ==
  /\ szResult = <<>>
  /\ szPc = "input"

SizeIdle ==
  /\ szInputs = << <<>>, <<>>, <<>>, <<>>, <<>>, <<>>, <<>>, <<>> >>
  /\ szFiles = <<>>
  /\ SizeLocalsInit

\* Lines 136-137 of run().
SizeAnalyze ==
  /\ szPc = "input"
  /\ szResult' = <<analyzeSize(szFiles, sizeThresholds(szInputs))>>
  /\ szPc' = "sized"
  /\ UNCHANGED <<szInputs, szFiles>>
  /\ UNCHANGED <<ownerVars, engineVars, commentVars, labelVars, filesVars, stateVars>>

SizeNext == SizeAnalyze


\* ------------------------------------------- run(): labels and posting

\* A label name is <<head, rest>>, the name being head followed by rest:
\* head is the text up to and with the first colon, "" when there is none.
SIZE_LABEL_PREFIX == "size:"
Label(head, rest) == <<head, rest>>
startsWithSizePrefix(name) == name[1] = SIZE_LABEL_PREFIX

\* The labels a pull request may carry when the action starts.
LabelUniverse ==
  { Label(SIZE_LABEL_PREFIX, "XS"), Label(SIZE_LABEL_PREFIX, "L"),
    Label("", "bug"), Label("resize:", "L") }

\* staleLabels of applySizeLabel keeping nothing.
staleLabelsNone(currentLabels, targetLabel) == {}

\* currentLabels.filter(l => l.name.startsWith(SIZE_LABEL_PREFIX) &&
\* l.name !== targetLabel)
staleLabelsOf(currentLabels, targetLabel) ==
  {l \in currentLabels : startsWithSizePrefix(l) /\ l # targetLabel}

targetLabel == Label(SIZE_LABEL_PREFIX, lbIn.size)

NoRunInputs ==
  [dryRun |-> FALSE, addLabel |-> FALSE, sweepStale |-> FALSE, enableSize |-> TRUE,
   size |-> "XS"]

LabelLocalsInit ==
  /\ lbIn = NoRunInputs
  /\ lbCurrent = {}
  /\ lbStale = {}
  /\ lbPc = "idle"

LabelsIdle ==
  /\ lbLabels = {}
  /\ LabelLocalsInit

\* run() reads its inputs (lines 26-76); the size is what analyzeSize will
\* return for the files of the pull request.
RunBegin ==
  /\ lbPc = "idle"
  /\ \A p \in Procs : rpc[p] = "idle"
  /\ nRuns < MaxRuns
  /\ nRuns' = nRuns + 1
  /\ \E dr \in BOOLEAN, al \in BOOLEAN, sw \in BOOLEAN, es \in BOOLEAN,
        sz \in Range(SIZE_ORDER) :
       /\ lbIn' = [dryRun |-> dr, addLabel |-> al, sweepStale |-> sw,
                   enableSize |-> es, size |-> sz]
       /\ lbPc' = IF sw THEN "sweep" ELSE "size"
  /\ UNCHANGED <<lbLabels, lbCurrent, lbStale>>
  /\ UNCHANGED <<comments, nextId, nAdded, rpc, rfound, rmarker>>
  /\ UNCHANGED <<ownerVars, engineVars, sizeVars, filesVars, stateVars>>

\* staleSweep for the pull request (lines 78-84 of run(), 331-370 of the
\* state module): skipped when the pull request is not stale or its analysis
\* fails, logged in a dry run, posted with upsertComment otherwise.
Sweep ==
  /\ lbPc = "sweep"
  /\ \/ /\ lbPc' = "returned"
        /\ UNCHANGED <<rpc, rfound>>
     \/ /\ ~lbIn.dryRun
        /\ lbPc' = "posting"
        /\ rpc' = [rpc EXCEPT ![1] = "upsertList"]
        /\ rfound' = [rfound EXCEPT ![1] = 0]
  /\ UNCHANGED <<lbIn, lbLabels, lbCurrent, lbStale>>
  /\ UNCHANGED <<comments, nextId, nAdded, nRuns, rmarker>>
  /\ UNCHANGED <<ownerVars, engineVars, sizeVars, filesVars, stateVars>>

\* The size section of run() (lines 134-159): applySizeLabel is called when
\* enable_size and add_label are on.
SizeSection ==
  /\ lbPc = "size"
  /\ lbPc' = IF lbIn.enableSize /\ lbIn.addLabel THEN "labelList" ELSE "post"
  /\ UNCHANGED <<lbIn, lbLabels, lbCurrent, lbStale>>
  /\ UNCHANGED <<ownerVars, engineVars, commentVars, sizeVars, filesVars, stateVars>>

\* Where applySizeLabel goes once no stale label is left to remove.
afterStale(current) == IF targetLabel \in current THEN "post" ELSE "labelAdd"

\* applySizeLabel, its listLabelsOnIssue and the two tests on what it
\* returned; a throw reaches the catch of run().
LabelList ==
  /\ lbPc = "labelList"
  /\ \/ /\ lbCurrent' = lbLabels
        /\ lbStale' = staleLabelsOf(lbLabels, targetLabel)
        /\ lbPc' = IF staleLabelsOf(lbLabels, targetLabel) # {} THEN "labelRemove"
                   ELSE afterStale(lbLabels)
     \/ /\ lbPc' = "failed"
        /\ UNCHANGED <<lbCurrent, lbStale>>
  /\ UNCHANGED <<lbIn, lbLabels>>
  /\ UNCHANGED <<ownerVars, engineVars, commentVars, sizeVars, filesVars, stateVars>>

\* applySizeLabel, one removeLabel of its loop.
LabelRemove ==
  /\ lbPc = "labelRemove"
  /\ \/ \E l \in lbStale :
          /\ lbLabels' = lbLabels \ {l}
          /\ lbStale' = lbStale \ {l}
          /\ lbPc' = IF lbStale = {l} THEN afterStale(lbCurrent) ELSE "labelRemove"
     \/ /\ lbPc' = "failed"
        /\ UNCHANGED <<lbLabels, lbStale>>
  /\ UNCHANGED <<lbIn, lbCurrent>>
  /\ UNCHANGED <<ownerVars, engineVars, commentVars, sizeVars, filesVars, stateVars>>

\* applySizeLabel, its addLabels.
LabelAdd ==
  /\ lbPc = "labelAdd"
  /\ \/ /\ lbLabels' = lbLabels \cup {targetLabel}
        /\ lbPc' = "post"
     \/ /\ lbPc' = "failed"
        /\ UNCHANGED lbLabels
  /\ UNCHANGED <<lbIn, lbCurrent, lbStale>>
  /\ UNCHANGED <<ownerVars, engineVars, commentVars, sizeVars, filesVars, stateVars>>

\* Lines 196-207 of run(): a dry run logs the body and returns; otherwise
\* the cleanup of the old comments starts, and the upsert follows it.
Post ==
  /\ lbPc = "post"
  /\ \/ /\ lbIn.dryRun
        /\ lbPc' = "returned"
        /\ UNCHANGED <<rpc, rfound, rmarker>>
     \/ /\ ~lbIn.dryRun
        /\ lbPc' = "posting"
        /\ rpc' = [rpc EXCEPT ![1] = "cleanupList"]
        /\ rmarker' = [rmarker EXCEPT ![1] = 1]
        /\ rfound' = [rfound EXCEPT ![1] = 0]
  /\ UNCHANGED <<lbIn, lbLabels, lbCurrent, lbStale>>
  /\ UNCHANGED <<comments, nextId, nAdded, nRuns>>
  /\ UNCHANGED <<ownerVars, engineVars, sizeVars, filesVars, stateVars>>

\* run() is over: its locals are gone.
RunEnd ==
  /\ \/ lbPc \in {"returned", "failed"}
     \/ lbPc = "posting" /\ rpc[1] \in {"done", "failed"}
  /\ lbPc' = "idle"
  /\ rpc' = [rpc EXCEPT ![1] = "idle"]
  /\ lbIn' = NoRunInputs
  /\ lbCurrent' = {}
  /\ lbStale' = {}
  /\ UNCHANGED lbLabels
  /\ UNCHANGED <<comments, nextId, nAdded, nRuns, rfound, rmarker>>
  /\ UNCHANGED <<ownerVars, engineVars, sizeVars, filesVars, stateVars>>

RunNext ==
  \/ RunBegin \/ Sweep \/ SizeSection \/ LabelList \/ LabelRemove \/ LabelAdd
  \/ Post \/ RunEnd
  \/ CleanupList(1) \/ CleanupDelete(1)
  \/ UpsertList(1) \/ UpsertUpdate(1) \/ UpsertCreate(1)

\* ------------------------------------------------------ listAllPRFiles
\* The files of the pull request in API order: file i is the integer i.
prFiles(total) == [i \in 1..total |-> i]

\* octokit.rest.pulls.listFiles({ per_page: 100, page }): the page-th slice of
\* PerPage files, empty past the end.
listFiles(total, page) ==
  SubSeq(prFiles(total), (page - 1) * PerPage + 1, Min2(page * PerPage, total))

pushAll(files, data, maxFiles) == files \o data

\* for (const f of resp.data) { files.push(f); if (files.length >= maxFiles)
\* break; }: the loop is entered with files.length < maxFiles.
pushUntilCap(files, data, maxFiles) ==
  files \o Slice(data, maxFiles - Len(files))

\* The values of max_files tried: around each page boundary and beyond the
\* largest pull request.
MaxFilesChoices ==
  {1, PerPage - 1, PerPage, PerPage + 1, 2 * PerPage - 1, 2 * PerPage,
   2 * PerPage + 1, MaxTotal + 1}

NoCall == [total |-> 0, maxFiles |-> 1]

FilesIdle ==
  /\ lfIn = NoCall
  /\ lfFiles = <<>>
  /\ lfPage = 1
  /\ lfResps = <<>>
  /\ lfPc = "idle"

\* run() calls listAllPRFiles with maxFiles = clampInt(max_files, 500, 1, 5000)
\* (part_000 lines 39, 113-115): files = [], page = 1.
ListFilesCall ==
  /\ lfPc = "idle"
  /\ lfPc' = "loop"
  /\ lfFiles' = <<>>
  /\ lfPage' = 1
  /\ lfResps' = <<>>
  /\ UNCHANGED <<lfIn, ownerVars, engineVars, commentVars, sizeVars, labelVars,
                 stateVars>>

\* One turn of while (files.length < maxFiles): the request, the break on an
\* empty page, the pushes up to the cap, the break on a short page, page += 1.
ListFilesPage ==
  /\ lfPc = "loop"
  /\ Len(lfFiles) < lfIn.maxFiles
  /\ LET data == listFiles(lfIn.total, lfPage)
     IN /\ lfResps' = Append(lfResps, Len(data))
        /\ IF Len(data) = 0
             THEN /\ lfPc' = "returned"
                  /\ UNCHANGED <<lfFiles, lfPage>>
             ELSE /\ lfFiles' = pushUntilCap(lfFiles, data, lfIn.maxFiles)
                  /\ IF Len(data) < PerPage
                       THEN /\ lfPc' = "returned"
                            /\ UNCHANGED lfPage
                       ELSE /\ lfPc' = "loop"
                            /\ lfPage' = lfPage + 1
  /\ UNCHANGED <<lfIn, ownerVars, engineVars, commentVars, sizeVars, labelVars,
                 stateVars>>

\* The while condition fails: return files.
ListFilesReturn ==
  /\ lfPc = "loop"
  /\ Len(lfFiles) >= lfIn.maxFiles
  /\ lfPc' = "returned"
  /\ UNCHANGED <<lfIn, lfFiles, lfPage, lfResps, ownerVars, engineVars,
                 commentVars, sizeVars, labelVars, stateVars>>

FilesNext == ListFilesCall \/ ListFilesPage \/ ListFilesReturn

\* --------------------------------------------------- the state section
\* A review: submitted_at is 0 when absent (a pending review).
StateReview(login, state, t) == [login |-> login, state |-> state, submitted_at |-> t]
\* A check run: conclusion is "" when null.
CheckRun(status, conclusion) == [status |-> status, conclusion |-> conclusion]

\* octokit.rest.pulls.listReviews({ per_page: 100 }): the first page, oldest
\* reviews first.
listReviews(reviews) == Slice(reviews, PerPage)

\* latestByUser: for each login the state and time of its latest review, a
\* review without login or submitted_at skipped.  The Map has the logins in
\* the order of their first review; a review replaces the one kept only when
\* it is later (t > prev.t), so the one kept at the end is the first of those
\* with the greatest time.
latestByUser(reviews) ==
  LET counted(r) == r.login # NoLogin /\ r.submitted_at # 0
      valid == Filter(reviews, counted)
      firsts == {i \in DOMAIN valid : \A j \in 1..(i - 1) : valid[j].login # valid[i].login}
      nth(k) == CHOOSE i \in firsts : Cardinality({j \in firsts : j < i}) = k - 1
      kept(login) ==
        CHOOSE i \in DOMAIN valid :
          /\ valid[i].login = login
          /\ \A j \in DOMAIN valid :
               valid[j].login = login =>
                 \/ valid[j].submitted_at < valid[i].submitted_at
                 \/ (valid[j].submitted_at = valid[i].submitted_at /\ i <= j)
  IN  [k \in 1..Cardinality(firsts) |->
         [key |-> valid[nth(k)].login,
          val |-> [state |-> valid[kept(valid[nth(k)].login)].state,
                   t |-> valid[kept(valid[nth(k)].login)].submitted_at]]]

countState(latest, state) == Cardinality({i \in DOMAIN latest : latest[i].val.state = state})

\* summarizeChecks: failing and inProgress (the names, at most 5 of each; here
\* the check runs themselves).
summarizeChecks(runs) ==
  LET isFailing(r) == r.conclusion = "failure"
      isRunning(r) == r.status # "" /\ r.status # "completed"
  IN  [failing |-> Slice(Filter(runs, isFailing), 5),
       inProgress |-> Slice(Filter(runs, isRunning), 5)]

\* let effectiveStaleDays = staleDays; the first label of the pull request
\* with an override gives clampInt(overrides[label], staleDays, 1, 365).
\* override is "none" when no label has one.
effectiveStaleDays(staleDays, override) ==
  IF override = "none" THEN staleDays ELSE clampInt(override, staleDays, 1, 365)

\* classifyState: the blockers, in the order they are pushed.
classifyState(pr, checksSummary, reviewsSummary, staleDays, ageDays) ==
  (IF pr.draft THEN <<"PR is **Draft**.">> ELSE <<>>)
  \o (IF pr.mergeable = "false" THEN <<"PR has **merge conflicts**.">> ELSE <<>>)
  \o (IF Len(checksSummary.failing) # 0 THEN <<"CI failing">> ELSE <<>>)
  \o (IF Len(checksSummary.inProgress) # 0 THEN <<"CI still running">> ELSE <<>>)
  \o (IF reviewsSummary.requestedChanges > 0 THEN <<"Changes requested">>
      ELSE IF reviewsSummary.approvals = 0 /\ Len(reviewsSummary.requestedReviewers) # 0
           THEN <<"Awaiting review from">>
      ELSE IF reviewsSummary.approvals = 0 THEN <<"No approvals yet.">>
      ELSE <<>>)
  \o (IF ageDays >= staleDays THEN <<"No PR activity">> ELSE <<>>)

\* analyzeState: the summaries, the effective stale window, the blockers.
analyzeState(pr, reviews, checkRuns, staleDays, override) ==
  LET latest == latestByUser(reviews)
      reviewsSummary == [approvals |-> countState(latest, "APPROVED"),
                         requestedChanges |-> countState(latest, "CHANGES_REQUESTED"),
                         requestedReviewers |-> pr.requested_reviewers]
      checksSummary == summarizeChecks(checkRuns)
      blockers == classifyState(pr, checksSummary, reviewsSummary,
                                effectiveStaleDays(staleDays, override), pr.ageDays)
  IN  [approvals |-> reviewsSummary.approvals,
       requestedChanges |-> reviewsSummary.requestedChanges,
       checksSummary |-> checksSummary,
       blockers |-> blockers]

\* formatStateSection, the lines under "blocking": the blockers, or
\* tr.nothingBlocking when there is none.
NothingBlocking == "Nothing obvious. This PR looks ready to merge."
blockingLines(analysis) ==
  IF Len(analysis.blockers) # 0 THEN analysis.blockers ELSE <<NothingBlocking>>

NoStateInput ==
  [pr |-> [draft |-> FALSE, mergeable |-> "null", requested_reviewers |-> <<>>,
           ageDays |-> 0],
   reviews |-> <<>>, checkRuns |-> <<>>, staleDays |-> 3, override |-> "none"]
NoFetch == [reviews |-> <<>>, checkRuns |-> <<>>]
NoAnalysis ==
  [approvals |-> 0, requestedChanges |-> 0,
   checksSummary |-> [failing |-> <<>>, inProgress |-> <<>>],
   blockers |-> <<>>, lines |-> <<>>]

StateIdle ==
  /\ stIn = NoStateInput
  /\ stFetched = NoFetch
  /\ stAnalysis = NoAnalysis
  /\ stPc = "idle"

\* run(), lines 117-129: the reviews (first page) and the check runs.
FetchState ==
  /\ stPc = "input"
  /\ stFetched' = [reviews |-> listReviews(stIn.reviews), checkRuns |-> stIn.checkRuns]
  /\ stPc' = "fetched"
  /\ UNCHANGED <<stIn, stAnalysis, ownerVars, engineVars, commentVars, sizeVars,
                 labelVars, filesVars>>

\* run(), lines 161-169: analyzeState and formatStateSection.
AnalyzeState ==
  /\ stPc = "fetched"
  /\ LET a == analyzeState(stIn.pr, stFetched.reviews, stFetched.checkRuns,
                           stIn.staleDays, stIn.override)
     IN  stAnalysis' = a @@ [lines |-> blockingLines(a)]
  /\ stPc' = "analyzed"
  /\ UNCHANGED <<stIn, stFetched, ownerVars, engineVars, commentVars, sizeVars,
                 labelVars, filesVars>>

StateNext == FetchState \/ AnalyzeState

\* ------------------------------------------------------- specifications

OwnersIdle ==
  /\ coLines = <<>>
  /\ OwnerLocalsInit

EngineIdle ==
  /\ world = BaseWorld
  /\ runNo = 1
  /\ prevResult = <<>>
  /\ EngineLocalsInit

CommentsIdle ==
  /\ comments = <<>>
  /\ nextId = 1
  /\ nAdded = 0
  /\ nRuns = 0
  /\ CommentLocalsInit

\* analyzeReviewers on each pull request of Worlds.
Init ==
  /\ world \in Worlds
  /\ runNo = 1
  /\ prevResult = <<>>
  /\ EngineLocalsInit
  /\ OwnersIdle
  /\ CommentsIdle
  /\ SizeIdle
  /\ LabelsIdle
  /\ FilesIdle
  /\ StateIdle

Next == EngineNext

Spec == Init /\ [][Next]_vars

\* analyzeReviewers called again on the same data.
SpecRerun == Init /\ [][EngineNext \/ Rerun]_vars

\* parseCodeowners and ownersForFile on every ownership file of CoTexts.
InitOwners ==
  /\ coLines \in CoTexts
  /\ OwnerLocalsInit
  /\ EngineIdle
  /\ CommentsIdle
  /\ SizeIdle
  /\ LabelsIdle
  /\ FilesIdle
  /\ StateIdle

SpecOwners == InitOwners /\ [][OwnersNext]_vars

\* analyzeSize on pull requests of up to MaxFileCount like files.
InitSize ==
  /\ \E lines \in SizeLineInputs, counts \in SizeFileInputs :
       szInputs = lines \o counts
  /\ \E n \in 0..MaxFileCount, c \in SizeLineChoices :
       szFiles = [i \in 1..n |-> [additions |-> c[1], deletions |-> c[2]]]
  /\ SizeLocalsInit
  /\ OwnersIdle
  /\ EngineIdle
  /\ CommentsIdle
  /\ LabelsIdle
  /\ FilesIdle
  /\ StateIdle

SpecSize == InitSize /\ [][SizeNext]_vars

\* The comments a pull request starts with: old comments of the three
\* earlier actions, written before or after none, a page less one, or a
\* full page of other comments.
InitLegacy == { <<>>, <<"legacy1">>, <<"legacy2", "legacy3", "legacy2">> }
InitOthers == {0, PerPage - 1, PerPage}

InitComments ==
  /\ \E legacy \in InitLegacy, n \in InitOthers, legacyFirst \in BOOLEAN :
       /\ comments = Comments(IF legacyFirst
                                THEN legacy \o [i \in 1..n |-> "other"]
                                ELSE [i \in 1..n |-> "other"] \o legacy, 1)
       /\ nextId = Len(legacy) + n + 1
  /\ nAdded = 0
  /\ nRuns = 0
  /\ CommentLocalsInit
  /\ OwnersIdle
  /\ EngineIdle
  /\ SizeIdle
  /\ LabelsIdle
  /\ FilesIdle
  /\ StateIdle

SpecComments == InitComments /\ [][CommentsNext]_vars

\* Runs of the action on one pull request that overlap: two events on the
\* pull request start two workflow runs, their API calls in any order.
InterleavedNext ==
  \/ AddComment
  \/ \E p \in Procs :
       \/ StartRun(p) \/ DryRun(p)
       \/ CleanupList(p) \/ CleanupDelete(p)
       \/ UpsertList(p) \/ UpsertUpdate(p) \/ UpsertCreate(p)
       \/ EndRun(p)

SpecInterleaved == InitComments /\ [][InterleavedNext]_vars

\* Whole runs of the action on a pull request with any of the labels of
\* LabelUniverse and no comment, an old comment or a PR Advisor comment.
InitRun ==
  /\ lbLabels \in SUBSET LabelUniverse
  /\ LabelLocalsInit
  /\ \E kinds \in {<<>>, <<"legacy1">>, <<MARKER>>} :
       /\ comments = Comments(kinds, 1)
       /\ nextId = Len(kinds) + 1
  /\ nAdded = 0
  /\ nRuns = 0
  /\ CommentLocalsInit
  /\ OwnersIdle
  /\ EngineIdle
  /\ SizeIdle
  /\ FilesIdle
  /\ StateIdle

SpecRun == InitRun /\ [][RunNext]_vars

\* ------------------------------------- the scenario of alice and bob

LoginAlice == <<"a","l","i","c","e">>
LoginBob == <<"b","o","b">>
UsersTs == <<"src", "api", "users.ts">>
BillingTs == <<"src", "api", "billing.ts">>

\* The four commits on users.ts, newest first: three by alice and one by bob,
\* bob's at place k.
ScenarioCommits(k) ==
  [i \in 1..4 |-> Commit(IF i = k THEN LoginBob ELSE LoginAlice, 10)]

\* The pull requests of the scenario: the rule `src/api/* @alice`, commits on
\* users.ts only, no closed and no open pull requests, no timezone, nothing
\* excluded or required; the switches of the signals without data either way.
ScenarioWorlds ==
  { [prAuthor |-> LoginCy,
     changedFiles |-> <<UsersTs, BillingTs>>,
     maxFiles |-> 50,
     maxReviewers |-> mr,
     useCodeowners |-> TRUE,
     codeownersFiles |-> << <<Line(Pat(FALSE, <<"src", "api", "*">>), <<LoginAlice>>)>>,
                            <<>>, <<>> >>,
     commits |-> [p \in {UsersTs, BillingTs} |->
                    IF p = UsersTs THEN ScenarioCommits(k) ELSE <<>>],
     useLatency |-> ul,
     closedPRs |-> <<>>,
     excludeInput |-> <<>>,
     excludeFile |-> <<>>,
     crossRepoInput |-> <<>>,
     crossCommits |-> [r \in {Repo1} |-> [p \in {UsersTs, BillingTs} |-> <<>>]],
     preferTimezone |-> <<>>,
     requiredInput |-> <<>>,
     penalizeLoad |-> pl,
     openPRs |-> <<>>,
     detectFlaky |-> df,
     fails |-> {}] :
    k \in 1..4, mr \in {1, 3}, ul \in BOOLEAN, pl \in BOOLEAN, df \in BOOLEAN }

InitScenario ==
  /\ world \in ScenarioWorlds
  /\ runNo = 1
  /\ prevResult = <<>>
  /\ EngineLocalsInit
  /\ OwnersIdle
  /\ CommentsIdle
  /\ SizeIdle
  /\ LabelsIdle
  /\ FilesIdle
  /\ StateIdle

SpecScenario == InitScenario /\ [][EngineNext]_vars


\* ------------------------------------ a pull request and its twin without
\* ------------------------------------ the commits of the excluded logins

\* The pull requests of the comparison: four changed files, no ownership
\* file, "Cy" in exclude_reviewers; each path has no commit, one of "bo" or
\* one of "cy"; "bo" is a required reviewer or not.
ExclusionCommits == {<<>>, <<Commit(LoginBo, 10)>>, <<Commit(LoginCy, 10)>>}

ExclusionWorlds ==
  { [prAuthor |-> LoginAl,
     changedFiles |-> <<F1, F2, F3, F4>>,
     maxFiles |-> 4,
     maxReviewers |-> 2,
     useCodeowners |-> FALSE,
     codeownersFiles |-> << <<>>, <<>>, <<>> >>,
     commits |-> cs,
     useLatency |-> FALSE,
     closedPRs |-> <<>>,
     excludeInput |-> <<LoginCyUpper>>,
     excludeFile |-> <<>>,
     crossRepoInput |-> <<>>,
     crossCommits |-> [r \in {Repo1} |-> [p \in AllPaths |-> <<>>]],
     preferTimezone |-> <<>>,
     requiredInput |-> rq,
     penalizeLoad |-> pl,
     openPRs |-> <<>>,
     detectFlaky |-> FALSE,
     fails |-> {}] :
    cs \in [AllPaths -> ExclusionCommits], rq \in {<<>>, <<LoginBo>>}, pl \in BOOLEAN }

\* The same pull request without the commits of the paths whose commits are
\* all by excluded logins: no other login's data changes.
withoutExcluded(w, ex) ==
  [w EXCEPT !.commits =
     [p \in DOMAIN w.commits |->
        IF \A i \in DOMAIN w.commits[p] : toLowerCase(w.commits[p][i].login) \in ex
        THEN <<>> ELSE w.commits[p]]]

\* analyzeReviewers called again, on the twin of the pull request.
RerunWithoutExcluded ==
  /\ pc = "done"
  /\ runNo < MaxRuns
  /\ runNo' = runNo + 1
  /\ prevResult' = <<[returned |-> result[1], ranked |-> ranked]>>
  /\ world' = withoutExcluded(world, excluded)
  /\ pc' = "codeowners"
  /\ codeownersRules' = <<>>
  /\ fileAuthors' = <<>>
  /\ fileIdx' = 1
  /\ latencyMap' = <<>>
  /\ excluded' = {}
  /\ crossRepoExpertise' = <<>>
  /\ timezoneData' = <<>>
  /\ flakyReviewers' = {}
  /\ rankedRaw' = <<>>
  /\ rankedKept' = <<>>
  /\ rankedLoad' = <<>>
  /\ ranked' = <<>>
  /\ loadApplied' = FALSE
  /\ result' = <<>>
  /\ UNCHANGED <<ownerVars, commentVars, sizeVars, labelVars, filesVars, stateVars>>

InitExclusion ==
  /\ world \in ExclusionWorlds
  /\ runNo = 1
  /\ prevResult = <<>>
  /\ EngineLocalsInit
  /\ OwnersIdle
  /\ CommentsIdle
  /\ SizeIdle
  /\ LabelsIdle
  /\ FilesIdle
  /\ StateIdle

SpecExclusion == InitExclusion /\ [][EngineNext \/ RerunWithoutExcluded]_vars

\* ------------------------------------ a pull request and its twin without
\* ------------------------------------ the files beyond reviewer_max_files

\* The same pull request with only its first maxFiles changed files.
withoutTheRest(w) == [w EXCEPT !.changedFiles = Slice(w.changedFiles, w.maxFiles)]

\* analyzeReviewers called again, on the twin of the pull request.
RerunWithoutTheRest ==
  /\ pc = "done"
  /\ runNo < MaxRuns
  /\ runNo' = runNo + 1
  /\ prevResult' = <<[returned |-> result[1], ranked |-> ranked]>>
  /\ world' = withoutTheRest(world)
  /\ pc' = "codeowners"
  /\ codeownersRules' = <<>>
  /\ fileAuthors' = <<>>
  /\ fileIdx' = 1
  /\ latencyMap' = <<>>
  /\ excluded' = {}
  /\ crossRepoExpertise' = <<>>
  /\ timezoneData' = <<>>
  /\ flakyReviewers' = {}
  /\ rankedRaw' = <<>>
  /\ rankedKept' = <<>>
  /\ rankedLoad' = <<>>
  /\ ranked' = <<>>
  /\ loadApplied' = FALSE
  /\ result' = <<>>
  /\ UNCHANGED <<ownerVars, commentVars, sizeVars, labelVars, filesVars, stateVars>>

SpecTruncated == Init /\ [][EngineNext \/ RerunWithoutTheRest]_vars


\* ------------------------------------------ pull requests for the label

\* Four changed files of which all or two are considered; an ownership file
\* that gives "bo" and "cy" every path, the paths of src, or none; on each
\* path no commit, one of "bo", one of "cy" then one of "bo", or four of
\* "bo"; "bo" a required reviewer or not; nothing else.
ConfidenceCommits ==
  { <<>>,
    <<Commit(LoginBo, 10)>>,
    <<Commit(LoginCy, 10), Commit(LoginBo, 10)>>,
    [i \in 1..4 |-> Commit(LoginBo, 10)] }
ConfidenceOwners ==
  { <<>>,
    <<Line(Pat(FALSE, <<"*">>), <<LoginBo, LoginCy>>)>>,
    <<Line(Pat(FALSE, <<"src", "*">>), <<LoginBo, LoginCy>>)>> }

ConfidenceWorlds ==
  { [prAuthor |-> LoginAl,
     changedFiles |-> <<F1, F2, F3, F4>>,
     maxFiles |-> mf,
     maxReviewers |-> mr,
     useCodeowners |-> TRUE,
     codeownersFiles |-> << co, <<>>, <<>> >>,
     commits |-> cs,
     useLatency |-> FALSE,
     closedPRs |-> <<>>,
     excludeInput |-> <<>>,
     excludeFile |-> <<>>,
     crossRepoInput |-> <<>>,
     crossCommits |-> [r \in {Repo1} |-> [p \in AllPaths |-> <<>>]],
     preferTimezone |-> <<>>,
     requiredInput |-> rq,
     penalizeLoad |-> FALSE,
     openPRs |-> <<>>,
     detectFlaky |-> FALSE,
     fails |-> {}] :
    cs \in [AllPaths -> ConfidenceCommits], co \in ConfidenceOwners,
    mf \in {2, 4}, mr \in {1, 3}, rq \in {<<>>, <<LoginBo>>} }

InitConfidence ==
  /\ world \in ConfidenceWorlds
  /\ runNo = 1
  /\ prevResult = <<>>
  /\ EngineLocalsInit
  /\ OwnersIdle
  /\ CommentsIdle
  /\ SizeIdle
  /\ LabelsIdle
  /\ FilesIdle
  /\ StateIdle

SpecConfidence == InitConfidence /\ [][EngineNext]_vars


\* ------------------------------------- pull requests for the timezone bonus

\* One changed file with one commit, by "cy" at any UTC hour; prefer_timezone
\* "UTC+d" or "UTC-d" for every d up to MaxOffset; nothing else.
TimezoneWorlds ==
  { [prAuthor |-> LoginAl,
     changedFiles |-> <<F1>>,
     maxFiles |-> 2,
     maxReviewers |-> 2,
     useCodeowners |-> FALSE,
     codeownersFiles |-> << <<>>, <<>>, <<>> >>,
     commits |-> [p \in AllPaths |-> IF p = F1 THEN <<Commit(LoginCy, h)>> ELSE <<>>],
     useLatency |-> FALSE,
     closedPRs |-> <<>>,
     excludeInput |-> <<>>,
     excludeFile |-> <<>>,
     crossRepoInput |-> <<>>,
     crossCommits |-> [r \in {Repo1} |-> [p \in AllPaths |-> <<>>]],
     preferTimezone |-> << [prefix |-> <<"U","T","C">>, sign |-> sg, digits |-> d] >>,
     requiredInput |-> <<>>,
     penalizeLoad |-> FALSE,
     openPRs |-> <<>>,
     detectFlaky |-> FALSE,
     fails |-> {}] :
    h \in 0..23, sg \in {"+", "-"}, d \in 0..MaxOffset }

InitTimezone ==
  /\ world \in TimezoneWorlds
  /\ runNo = 1
  /\ prevResult = <<>>
  /\ EngineLocalsInit
  /\ OwnersIdle
  /\ CommentsIdle
  /\ SizeIdle
  /\ LabelsIdle
  /\ FilesIdle
  /\ StateIdle

SpecTimezone == InitTimezone /\ [][EngineNext]_vars

\* ------------------------------------------- the listing of the files
InitFiles ==
  /\ lfIn \in [total : 0..MaxTotal, maxFiles : MaxFilesChoices]
  /\ lfFiles = <<>>
  /\ lfPage = 1
  /\ lfResps = <<>>
  /\ lfPc = "idle"
  /\ OwnersIdle
  /\ EngineIdle
  /\ CommentsIdle
  /\ SizeIdle
  /\ LabelsIdle
  /\ StateIdle

SpecFiles == InitFiles /\ [][FilesNext]_vars

\* ------------------------------------------ pull requests for the state
\* The reviews that follow the older ones: by Al or cy, submitted or pending.
LaterReviewKinds ==
  {<<LoginAl, "APPROVED">>, <<LoginAl, "CHANGES_REQUESTED">>, <<LoginAl, "PENDING">>,
   <<LoginCy, "APPROVED">>, <<LoginCy, "CHANGES_REQUESTED">>, <<LoginCy, "COMMENTED">>}
\* How many older reviews (comments by bo) the pull request has.
OlderReviews == {0, PerPage - 1}
\* The reviews in the order they were submitted: the time of a submitted
\* review is its place.
ReviewsOf(older, later) ==
  [i \in 1..(older + Len(later)) |->
     IF i <= older THEN StateReview(LoginBo, "COMMENTED", i)
     ELSE StateReview(later[i - older][1], later[i - older][2],
                      IF later[i - older][2] = "PENDING" THEN 0 ELSE i)]
CheckRunKinds ==
  {CheckRun("completed", "success"), CheckRun("completed", "failure"),
   CheckRun("in_progress", ""), CheckRun("completed", "timed_out")}

InitState ==
  /\ \E draft \in BOOLEAN, mergeable \in {"true", "false", "null"},
        requested \in {<<>>, <<LoginCy>>}, ageDays \in 2..3,
        older \in OlderReviews, n \in 0..MaxReviews, c \in 0..1,
        override \in {"none", <<2>>} :
       \E later \in [1..n -> LaterReviewKinds], runs \in [1..c -> CheckRunKinds] :
         stIn = [pr |-> [draft |-> draft, mergeable |-> mergeable,
                         requested_reviewers |-> requested, ageDays |-> ageDays],
                 reviews |-> ReviewsOf(older, later), checkRuns |-> runs,
                 staleDays |-> 3, override |-> override]
  /\ stFetched = NoFetch
  /\ stAnalysis = NoAnalysis
  /\ stPc = "input"
  /\ OwnersIdle
  /\ EngineIdle
  /\ CommentsIdle
  /\ SizeIdle
  /\ LabelsIdle
  /\ FilesIdle

SpecState == InitState /\ [][StateNext]_vars

\* ------------------------------------------------------------ properties

\* The entry of a ranking with a login; the logins of a ranking are the keys
\* of the scores Map, so no two entries share one.
hasEntry(rk, login) == \E i \in DOMAIN rk : rk[i].login = login
entryOf(rk, login) == rk[CHOOSE i \in DOMAIN rk : rk[i].login = login]

\* The rules of the parsed ownership file that match the resolved file.
matchingRules == {i \in DOMAIN coRules : ruleMatches(coRules[i], coFile)}
firstOf(S) == CHOOSE i \in S : \A j \in S : i <= j
lastOf(S) == CHOOSE i \in S : \A j \in S : j <= i

\* C1: ownersForFile resolves a file to the owners of the last rule, in file
\* order, that matches it (the owners of the only matching rule when there is
\* one; never those of an earlier rule, never a union), and to no owners when
\* no rule matches.
C1_OwnersOfLastMatchingRule ==
  coPc = "resolved" =>
    IF matchingRules = {} THEN coOwners = <<>>
    ELSE coOwners = coRules[lastOf(matchingRules)].owners

\* A file matched by two rules with different owners has been resolved.
C1_TwoRulesMatch ==
  /\ coPc = "resolved"
  /\ Cardinality(matchingRules) >= 2
  /\ coRules[firstOf(matchingRules)].owners # coRules[lastOf(matchingRules)].owners
  /\ coOwners = coRules[lastOf(matchingRules)].owners

\* C2: no entry of the ranking rankCandidates returns has the login of the
\* pull request's author (logins name one account whatever their case) and
\* none has a bot-like login.
C2_AuthorAndBotsNeverRanked ==
  \A i \in DOMAIN rankedRaw :
    /\ toLowerCase(rankedRaw[i].login) # toLowerCase(world.prAuthor)
    /\ ~isBotLogin(rankedRaw[i].login)

C4_ExcludedNeverSuggested ==
  pc = "done" =>
    /\ Range(excludeReviewersInput) \subseteq excluded
    /\ \A i \in DOMAIN result[1].suggestions :
         toLowerCase(result[1].suggestions[i].login) \notin excluded

\* The candidate that ranked first is excluded, under another spelling than
\* the exclusion list's.
C4_TopCandidateExcluded ==
  /\ pc = "done"
  /\ rankedRaw # <<>>
  /\ toLowerCase(rankedRaw[1].login) \in excluded
  /\ rankedRaw[1].login \notin excluded

\* C5 as stated: the load penalty never grows with openReviews, and a
\* candidate whose score was positive before the penalty has a positive score
\* after it.
C5_LoadPenaltyNeverZeroes ==
  loadApplied =>
    \A i \in DOMAIN rankedKept :
      /\ \A o \in 0..(OpenPageSize - 1) :
           loadPenalty(rankedKept[i].score, o + 1) <= loadPenalty(rankedKept[i].score, o)
      /\ rankedKept[i].score > 0 =>
           entryOf(rankedLoad, rankedKept[i].login).score > 0

\* C5, amended: the load penalty as applied (rounded) never grows with
\* openReviews and never goes below 0 or above the score it is applied to; it
\* is the exact quotient 3 score / (3 + openReviews) to within a half; and it
\* leaves a positive score exactly when 6 score >= 3 + openReviews, so that
\* a positive score with more open reviews than that becomes 0.
C5_LoadPenaltyMonotoneRounded ==
  loadApplied =>
    \A i \in DOMAIN rankedKept :
      LET score == rankedKept[i].score
          after == entryOf(rankedLoad, rankedKept[i].login)
          dist == after.score * (3 + after.openReviews) - 3 * score
      IN  /\ hasEntry(rankedLoad, rankedKept[i].login)
          /\ after.score >= 0
          /\ after.score <= score
          /\ 2 * dist <= 3 + after.openReviews
          /\ 2 * dist >= -(3 + after.openReviews)
          /\ after.score > 0 <=> 6 * score >= 3 + after.openReviews
          /\ \A o \in 0..(OpenPageSize - 1) :
               /\ loadPenalty(score, o + 1) <= loadPenalty(score, o)
               /\ loadPenalty(score, o) > 0 <=> 6 * score >= 3 + o

\* The load penalty turned a positive score into 0 and left another positive.
C5_PositiveScoreZeroed ==
  /\ loadApplied
  /\ \E i \in DOMAIN rankedKept :
       /\ rankedKept[i].score > 0
       /\ entryOf(rankedLoad, rankedKept[i].login).openReviews > 0
       /\ entryOf(rankedLoad, rankedKept[i].login).score = 0
  /\ \E i \in DOMAIN rankedKept :
       /\ entryOf(rankedLoad, rankedKept[i].login).openReviews > 0
       /\ entryOf(rankedLoad, rankedKept[i].login).score > 0

\* C6: after the flaky step, a candidate whose lower-cased login is in the
\* flaky set has half its post-load score, a half rounded up, and its
\* post-load reasons followed by "flaky reviewer", which occurs once; any
\* other candidate has the score and reasons it had.
C6_FlakyHalvesOnce ==
  pc \in {"finish", "done"} =>
    /\ Len(ranked) = Len(rankedLoad)
    /\ \A i \in DOMAIN rankedLoad :
         LET before == rankedLoad[i]
             after == entryOf(ranked, before.login)
         IN  /\ hasEntry(ranked, before.login)
             /\ IF toLowerCase(before.login) \in flakyReviewers
                THEN /\ 2 * after.score = before.score + (before.score % 2)
                     /\ after.reasons = Append(before.reasons, "flaky reviewer")
                     /\ Cardinality({k \in DOMAIN after.reasons :
                                       after.reasons[k] = "flaky reviewer"}) = 1
                ELSE after = before

\* A flaky candidate with an odd post-load score and a candidate that is not
\* flaky went through the flaky step.
C6_OddScoreHalved ==
  /\ pc = "done"
  /\ \E i \in DOMAIN rankedLoad :
       /\ toLowerCase(rankedLoad[i].login) \in flakyReviewers
       /\ rankedLoad[i].score % 2 = 1
  /\ \E i \in DOMAIN rankedLoad : toLowerCase(rankedLoad[i].login) \notin flakyReviewers

\* C7: when the final ranking is empty or its top score is 0, the confidence
\* analyzeReviewers returns is Low.
C7_ZeroTopIsLow ==
  pc = "done" =>
    ((ranked = <<>> \/ ranked[1].score = 0) => result[1].confidence = "Low")

\* A ranking that is not empty and whose top score is 0 was labelled.
C7_TopScoreZero ==
  /\ pc = "done"
  /\ ranked # <<>>
  /\ ranked[1].score = 0
  /\ fileAuthors # <<>>

C9_AtMostOneMarkerComment ==
  Cardinality({i \in DOMAIN comments : comments[i].kind = MARKER}) <= 1

\* The stages of analyzeReviewers, and where it is once it has returned.
Stages == {"codeowners", "commits", "latency", "exclusions", "crossRepo", "timezone",
           "flaky", "rank", "load", "flakyPenalty", "finish"}

\* C10: no failing fetch ends analyzeReviewers early: it is always at one of
\* its stages, with a step to take, or has returned; what it returns is a
\* confidence label and the ranking cut to maxReviewers; and a source whose
\* fetch failed has contributed nothing.
C10_FetchFailureNeverAborts ==
  /\ pc \in Stages \cup {"done"}
  /\ pc = "commits" => fileIdx <= Len(filesToCheck)
  /\ pc = "done" =>
       /\ result # <<>>
       /\ result[1].confidence \in {"High", "Medium", "Low"}
       /\ result[1].suggestions = Slice(ranked, world.maxReviewers)
       /\ \A k \in DOMAIN filesToCheck :
            Throws("commits", k) =>
              \A j \in DOMAIN fileAuthors : fileAuthors[j].path # filesToCheck[k]
       /\ Throws("latencyList", 1) => latencyMap = <<>>
       /\ (Throws("flakyClosedList", 1) \/ Throws("flakyOpenList", 1)) =>
            flakyReviewers = {}
       /\ Throws("loadList", 1) => (~loadApplied /\ rankedLoad = rankedKept)

\* A commit lookup failed and analyzeReviewers returned suggestions.
C10_ReturnedAfterFailure ==
  /\ pc = "done"
  /\ Throws("commits", 1)
  /\ fileAuthors # <<>>
  /\ result[1].suggestions # <<>>

\* C11: in the scenario alice is ranked above bob with a strictly higher
\* score, and the confidence is Medium or High.
C11_AliceAboveBob ==
  (pc = "done" /\ world \in ScenarioWorlds) =>
    /\ hasEntry(ranked, LoginAlice)
    /\ hasEntry(ranked, LoginBob)
    /\ entryOf(ranked, LoginAlice).score > entryOf(ranked, LoginBob).score
    /\ ranked[1].login = LoginAlice
    /\ result[1].suggestions[1].login = LoginAlice
    /\ result[1].confidence \in {"Medium", "High"}

\* The scenario has run with bob's commit the newest.
C11_BobNewest ==
  /\ pc = "done"
  /\ world \in ScenarioWorlds
  /\ world.commits[UsersTs][1].login = LoginBob
  /\ hasEntry(ranked, LoginBob)

\* The open pull requests among the first n listed that request the review of
\* a login, and the closed pull requests of the window, their reviews
\* fetched, on which the login has a review; logins without regard to case.
requestsOf(login, n) ==
  Cardinality({i \in 1..Min2(n, Len(world.openPRs)) :
                 \E j \in DOMAIN world.openPRs[i] :
                   toLowerCase(world.openPRs[i][j]) = login})
reviewedOn(login) ==
  Cardinality({i \in DOMAIN world.closedPRs :
                 /\ world.closedPRs[i].inWindow
                 /\ ~Throws("flakyReviews", i)
                 /\ \E j \in DOMAIN world.closedPRs[i].reviews :
                      toLowerCase(world.closedPRs[i].reviews[j].login) = login})
requestedSomewhere ==
  UNION {{toLowerCase(world.openPRs[i][j]) : j \in DOMAIN world.openPRs[i]} :
           i \in DOMAIN world.openPRs} \ {NoLogin}
flakyDetected ==
  /\ pc \in {"rank", "load", "flakyPenalty", "finish", "done"}
  /\ world.detectFlaky
  /\ ~Throws("flakyClosedList", 1)
  /\ ~Throws("flakyOpenList", 1)

\* C12 as stated: with flaky detection on, a login is in the flaky set
\* exactly when at least 3 of the currently open pull requests request its
\* review and it has a review on fewer sampled closed pull requests than
\* that.
C12_FlakyIffAllOpen ==
  flakyDetected =>
    \A login \in requestedSomewhere \cup flakyReviewers :
      login \in flakyReviewers <=>
        (/\ requestsOf(login, Len(world.openPRs)) >= 3
         /\ reviewedOn(login) < requestsOf(login, Len(world.openPRs)))

\* C12, amended: with flaky detection on, a login (lower-cased) is in the
\* flaky set exactly when at least 3 of the open pull requests the listing
\* returns, its first 50, request its review and it has a review on fewer
\* sampled closed pull requests of the window than that; and a ranked
\* candidate in the set ends with the reason "flaky reviewer".
C12_FlakyIffFirstPage ==
  flakyDetected =>
    /\ \A login \in requestedSomewhere \cup flakyReviewers :
         login \in flakyReviewers <=>
           (/\ requestsOf(login, 50) >= 3
            /\ reviewedOn(login) < requestsOf(login, 50))
    /\ pc = "done" =>
         \A i \in DOMAIN ranked :
           toLowerCase(ranked[i].login) \in flakyReviewers =>
             "flaky reviewer" \in Range(ranked[i].reasons)

\* A candidate requested on 4 open pull requests with no review on a closed
\* one was flagged and has the reason.
C12_FourRequestsNoReview ==
  /\ flakyDetected
  /\ pc = "done"
  /\ \E i \in DOMAIN ranked :
       /\ requestsOf(toLowerCase(ranked[i].login), 50) = 4
       /\ reviewedOn(toLowerCase(ranked[i].login)) = 0
       /\ toLowerCase(ranked[i].login) \in flakyReviewers
       /\ "flaky reviewer" \in Range(ranked[i].reasons)

\* C13: the suggestions are the first min(maxReviewers, n) entries of the
\* final ranking of n candidates, in its order: never more than maxReviewers,
\* and no candidate left out has a higher final score than one kept.
C13_SuggestionsAreTheTop ==
  pc = "done" =>
    LET suggestions == result[1].suggestions
    IN  /\ Len(suggestions) = Min2(world.maxReviewers, Len(ranked))
        /\ Len(suggestions) <= world.maxReviewers
        /\ \A i \in DOMAIN suggestions : suggestions[i] = ranked[i]
        /\ \A i \in DOMAIN suggestions :
             \A j \in (Len(suggestions) + 1)..Len(ranked) :
               ranked[j].score <= suggestions[i].score

\* A ranking longer than maxReviewers was cut, the first candidate left out
\* scoring as much as the last one kept.
C13_CutAtATie ==
  /\ pc = "done"
  /\ Len(ranked) > world.maxReviewers
  /\ ranked[world.maxReviewers + 1].score = ranked[world.maxReviewers].score
  /\ ranked[world.maxReviewers].score > 0

\* The first of XS, S, M, L whose threshold is at least the value, XL when
\* the value exceeds all four.
firstBucket(value, t) ==
  IF \A i \in 1..4 : value > t[i] THEN "XL"
  ELSE SIZE_ORDER[CHOOSE i \in 1..4 : value <= t[i] /\ \A j \in 1..(i - 1) : value > t[j]]

\* C14: the size analyzeSize reports is the larger, in the order
\* XS < S < M < L < XL, of the line-change bucket and the file-count bucket,
\* each the first of XS, S, M, L whose threshold is at least the value and XL
\* beyond them; so it is never smaller than either.
C14_SizeIsTheLargerBucket ==
  szPc = "sized" =>
    LET t == sizeThresholds(szInputs)
        total == SeqSum([i \in DOMAIN szFiles |-> szFiles[i].additions + szFiles[i].deletions])
        lineBucket == firstBucket(total, <<t.xsLines, t.sLines, t.mLines, t.lLines>>)
        fileBucket == firstBucket(Len(szFiles), <<t.xsFiles, t.sFiles, t.mFiles, t.lFiles>>)
        size == szResult[1].size
    IN  /\ size \in {lineBucket, fileBucket}
        /\ sizeIndexOf(size) >= sizeIndexOf(lineBucket)
        /\ sizeIndexOf(size) >= sizeIndexOf(fileBucket)

\* Many files with few lines: the file bucket is L and decides the size.
C14_ManyFilesFewLines ==
  /\ szPc = "sized"
  /\ szResult[1].size = "L"
  /\ szResult[1].totalChanged <= 50
  /\ szResult[1].fileCount > 15
  /\ szInputs = << <<>>, <<>>, <<>>, <<>>, <<>>, <<>>, <<>>, <<>> >>

legacyComments(cs) == {i \in DOMAIN cs : cs[i].kind \in Range(OLD_MARKERS)}
advisorIds(cs) == {cs[i].id : i \in {j \in DOMAIN cs : cs[j].kind = MARKER}}

\* C15: when a run with dry_run off has posted the PR Advisor comment
\* (upsertComment has created or updated it), no comment holding one of the
\* three old markers is left on the pull request, and no step of the cleanup
\* deletes a comment that holds the PR Advisor marker.
C15_NoLegacyCommentLeft ==
  [][\A p \in Procs :
       /\ (rpc[p] \in {"upsertUpdate", "upsertCreate"} /\ rpc'[p] = "done")
            => legacyComments(comments') = {}
       /\ rpc[p] = "cleanupDelete"
            => advisorIds(comments) \subseteq advisorIds(comments')]_vars

\* C16: a pull request and its twin, which differ only by commits of
\* excluded logins, get the same confidence label from analyzeReviewers.
C16_ExcludedLeaveConfidence ==
  (runNo = 2 /\ pc = "done")
    => result[1].confidence = prevResult[1].returned.confidence

\* The considered files that the last matching ownership rule gives owners.
ownedFiles ==
  {k \in DOMAIN filesToCheck :
     LET m == {i \in DOMAIN codeownersRules :
                 ruleMatches(codeownersRules[i], filesToCheck[k])}
     IN  m # {} /\ codeownersRules[lastOf(m)].owners # <<>>}

\* C17: the confidence is High exactly when the top score of the final
\* ranking (before the cut to maxReviewers) is at least 12, the coverage at
\* least 1/2 and the separation at least 1/4; failing that, Medium exactly
\* when the top score is at least 6 and the coverage at least 1/4; Low
\* otherwise. The separation is (top - second) / top, 0 for a top of 0; the
\* coverage is covered / n for the n considered files, covered the larger of
\* the number of paths with commit authors and the number with owners.
C17_ConfidenceThresholds ==
  pc = "done" =>
    LET topScore == IF ranked = <<>> THEN 0 ELSE ranked[1].score
        secondScore == IF Len(ranked) < 2 THEN 0 ELSE ranked[2].score
        n == Len(filesToCheck)
        covered == Max2(Min2(n, Len(fileAuthors)), Cardinality(ownedFiles))
        high == /\ topScore >= 12
                /\ n > 0 /\ 2 * covered >= n
                /\ topScore > 0 /\ 4 * secondScore <= 3 * topScore
        medium == topScore >= 6 /\ n > 0 /\ 4 * covered >= n
        label == result[1].confidence
    IN  /\ label = "High" <=> high
        /\ label = "Medium" <=> (~high /\ medium)
        /\ label = "Low" <=> (~high /\ ~medium)

\* A top score of 12 or more with full coverage was labelled Medium, the
\* second score, of a candidate cut from the suggestions, too close to it.
C17_CloseSecondCut ==
  /\ pc = "done"
  /\ world.maxReviewers = 1
  /\ Len(ranked) >= 2
  /\ ranked[1].score >= 12
  /\ 4 * ranked[2].score > 3 * ranked[1].score
  /\ Cardinality(ownedFiles) = Len(filesToCheck)
  /\ result[1].confidence = "Medium"

\* The scores Map of rankCandidates before its sort: its entries in the order
\* in which the logins were first credited.
scoresMap ==
  LET signals == commitCredits(fileAuthors, weights)
                   \o codeownersCredits(codeownersRules, filesToCheck, weights)
                   \o latencyCredits(latencyMap, weights)
                   \o crossRepoCredits(crossRepoExpertise)
                   \o timezoneCredits(timezoneData)
  IN  addRequired(addAll(initialScores, world.prAuthor, signals),
                  world.prAuthor, requiredReviewers)
creditedAt(login) == CHOOSE i \in DOMAIN scoresMap : scoresMap[i].login = login

\* C18 as stated: the final ranking is in non-increasing score order, and of
\* two candidates with equal final scores the one credited first comes
\* first, whatever the penalties did.
C18_TiesInCreditOrder ==
  pc \in {"finish", "done"} =>
    \A i, j \in DOMAIN ranked :
      i < j =>
        /\ ranked[i].score >= ranked[j].score
        /\ ranked[i].score = ranked[j].score
             => creditedAt(ranked[i].login) < creditedAt(ranked[j].login)

\* C18, amended: the final ranking is in non-increasing score order, and of
\* two candidates with equal final scores the one with the higher score
\* after the load step comes first, then the one with the higher score
\* before it, then the one credited first: the order of credit decides only
\* between candidates whose scores were equal all along.
C18_TiesInPriorOrder ==
  pc \in {"finish", "done"} =>
    \A i, j \in DOMAIN ranked :
      i < j =>
        LET a == ranked[i].login
            b == ranked[j].login
            la == entryOf(rankedLoad, a).score
            lb == entryOf(rankedLoad, b).score
            ka == entryOf(rankedKept, a).score
            kb == entryOf(rankedKept, b).score
        IN  /\ ranked[i].score >= ranked[j].score
            /\ ranked[i].score = ranked[j].score =>
                 \/ la > lb
                 \/ la = lb /\ ka > kb
                 \/ la = lb /\ ka = kb /\ creditedAt(a) < creditedAt(b)

\* Two candidates end with equal scores, the one credited later first: it
\* had the higher score before a penalty.
C18_LaterCreditedFirst ==
  /\ pc = "done"
  /\ \E i, j \in DOMAIN ranked :
       /\ i < j
       /\ ranked[i].score = ranked[j].score
       /\ creditedAt(ranked[i].login) > creditedAt(ranked[j].login)
       /\ entryOf(rankedKept, ranked[i].login).score
            > entryOf(rankedKept, ranked[j].login).score

\* The place of a login in a ranking; a ranking in non-increasing score
\* order whose entries of equal score are in the order they have in `prior`.
placeIn(rk, login) == CHOOSE i \in DOMAIN rk : rk[i].login = login
sortedKeeping(rk, prior) ==
  \A i, j \in DOMAIN rk :
    i < j =>
      /\ rk[i].score >= rk[j].score
      /\ rk[i].score = rk[j].score
           => placeIn(prior, rk[i].login) < placeIn(prior, rk[j].login)
loginsOf(rk) == {rk[i].login : i \in DOMAIN rk}

\* C19: the candidates left by the exclusion filter, and only they, go
\* through the load step and then the flaky step: the load penalty is taken
\* on the score the filter left, the flaky halving on the score the load
\* step left; and after each step the ranking is in non-increasing score
\* order, entries of equal score in the order they had before the step.
C19_PenaltiesInOrder ==
  /\ pc \in {"flakyPenalty", "finish", "done"} =>
       /\ \A i \in DOMAIN rankedKept : toLowerCase(rankedKept[i].login) \notin excluded
       /\ loginsOf(rankedKept) = {l \in loginsOf(rankedRaw) : toLowerCase(l) \notin excluded}
       /\ loginsOf(rankedLoad) = loginsOf(rankedKept)
       /\ Len(rankedLoad) = Len(rankedKept)
       /\ sortedKeeping(rankedLoad, rankedKept)
       /\ loadApplied =>
            \A i \in DOMAIN rankedLoad :
              rankedLoad[i].score =
                loadPenalty(entryOf(rankedKept, rankedLoad[i].login).score,
                            rankedLoad[i].openReviews)
  /\ pc \in {"finish", "done"} =>
       /\ loginsOf(ranked) = loginsOf(rankedLoad)
       /\ Len(ranked) = Len(rankedLoad)
       /\ sortedKeeping(ranked, rankedLoad)
       /\ \A i \in DOMAIN ranked :
            ranked[i].score =
              IF toLowerCase(ranked[i].login) \in flakyReviewers
              THEN flakyScore(entryOf(rankedLoad, ranked[i].login).score)
              ELSE entryOf(rankedLoad, ranked[i].login).score

\* A candidate was excluded, the load step changed the order of those left,
\* and the flaky step halved the score the load step had lowered.
C19_BothPenaltiesApplied ==
  /\ pc = "done"
  /\ loadApplied
  /\ Len(rankedKept) < Len(rankedRaw)
  /\ \E i \in DOMAIN rankedLoad : rankedLoad[i].login # rankedKept[i].login
  /\ \E i \in DOMAIN ranked :
       /\ toLowerCase(ranked[i].login) \in flakyReviewers
       /\ ranked[i].openReviews > 0
       /\ ranked[i].score < entryOf(rankedLoad, ranked[i].login).score
       /\ entryOf(rankedLoad, ranked[i].login).score
            < entryOf(rankedKept, ranked[i].login).score

\* The points the commits of one changed path give a login.
pathCredit(entry, login) ==
  LET credits == commitCredits(<<entry>>, weights)
  IN  SeqSum([i \in DOMAIN credits |->
                IF credits[i].login = login THEN credits[i].pts ELSE 0])

\* C20: the author list of each changed path holds a login at most once, so
\* that the path gives the login 3 points when it is the first author, 2
\* when the second and 1 otherwise, however many commits of the path are
\* the login's.
C20_AuthorsOncePerPath ==
  \A k \in DOMAIN fileAuthors :
    LET authors == fileAuthors[k].authors
    IN  /\ \A i, j \in DOMAIN authors : authors[i] = authors[j] => i = j
        /\ \A i \in DOMAIN authors :
             pathCredit(fileAuthors[k], authors[i])
               <= 3 * weights.commitHistory

\* The scores Map of rankCandidates when the required-reviewer step starts.
scoresBeforeRequired ==
  LET signals == commitCredits(fileAuthors, weights)
                   \o codeownersCredits(codeownersRules, filesToCheck, weights)
                   \o latencyCredits(latencyMap, weights)
                   \o crossRepoCredits(crossRepoExpertise)
                   \o timezoneCredits(timezoneData)
  IN  addAll(initialScores, world.prAuthor, signals)

\* The score a person has in a scores Map: that of the entries whose login
\* is the person's, whatever the case of its letters.
personScore(entries, login) ==
  SeqSum([i \in DOMAIN entries |->
            IF toLowerCase(entries[i].login) = toLowerCase(login)
            THEN entries[i].score ELSE 0])

\* C21: the required-reviewer step gives each required login that is not
\* the author's and not bot-like 10 points when the person had no score
\* before the step and 5 points when it had one, logins naming the same
\* person whatever their case; and the person has the reason "required
\* reviewer".
C21_RequiredFloorOrBoost ==
  pc \in {"load", "flakyPenalty", "finish", "done"} =>
    \A k \in DOMAIN requiredReviewers :
      LET login == requiredReviewers[k]
          before == personScore(scoresBeforeRequired, login)
      IN  (/\ toLowerCase(login) # toLowerCase(world.prAuthor)
           /\ ~isBotLogin(login)
           /\ \A j \in DOMAIN requiredReviewers : requiredReviewers[j] = login => j = k)
          => /\ personScore(rankedRaw, login)
                  = before + (IF before = 0 THEN RequiredFloor ELSE RequiredBoost)
             /\ \E i \in DOMAIN rankedRaw :
                  /\ toLowerCase(rankedRaw[i].login) = toLowerCase(login)
                  /\ "required reviewer" \in Range(rankedRaw[i].reasons)

\* The scores Map of rankCandidates without the timezone and required steps.
scoresBeforeTimezone ==
  LET signals == commitCredits(fileAuthors, weights)
                   \o codeownersCredits(codeownersRules, filesToCheck, weights)
                   \o latencyCredits(latencyMap, weights)
                   \o crossRepoCredits(crossRepoExpertise)
  IN  addAll(initialScores, world.prAuthor, signals)

\* The distance on the 24-hour circle between two hours of 0..23.
circularDistance(h1, h2) ==
  LET d == IF h1 >= h2 THEN h1 - h2 ELSE h2 - h1
  IN  Min2(d, 24 - d)

\* C22: for every offset parseTimezoneOffset returns, the points a login with
\* an average commit hour gets are 3 when the circular distance between the
\* hour and the center (14 - offset) mod 24 is at most 4, 1 when it is above
\* 4 and at most 8, and none otherwise; and the login has the reason
\* "timezone match" exactly when it gets points.
C22_BonusByCircularDistance ==
  (pc \in {"load", "flakyPenalty", "finish", "done"} /\ timezoneData # <<>>) =>
    LET center == (14 - timezoneData[1].preferredOffset) % 24
    IN  \A i \in DOMAIN timezoneData[1].avgHours :
          LET login == timezoneData[1].avgHours[i].key
              distance == circularDistance(timezoneData[1].avgHours[i].val, center)
              bonus == IF distance <= 4 THEN 3 ELSE IF distance <= 8 THEN 1 ELSE 0
          IN  /\ timezoneBonus(timezoneData[1].avgHours[i].val,
                               timezoneData[1].preferredOffset) = bonus
              /\ hasEntry(rankedRaw, login) =>
                   /\ entryOf(rankedRaw, login).score
                        = personScore(scoresBeforeTimezone, login) + bonus
                   /\ "timezone match" \in Range(entryOf(rankedRaw, login).reasons)
                        <=> bonus > 0

\* C23: whatever the threshold inputs are (left empty, not a number, out of
\* range or out of order), the thresholds run() hands to analyzeSize are in
\* non-decreasing order, for the lines and for the files.
C23_ThresholdsNonDecreasing ==
  szPc = "sized" =>
    LET t == sizeThresholds(szInputs)
    IN  /\ t.xsLines <= t.sLines /\ t.sLines <= t.mLines /\ t.mLines <= t.lLines
        /\ t.xsFiles <= t.sFiles /\ t.sFiles <= t.mFiles /\ t.mFiles <= t.lFiles

\* C24: on a pull request whose comments fit the one page upsertComment
\* reads, runs whose API calls interleave leave at most one comment holding
\* the PR Advisor marker.
C24_InterleavedRunsOneComment ==
  Len(comments) <= PerPage =>
    Cardinality({i \in DOMAIN comments : comments[i].kind = MARKER}) <= 1

\* C25: in a run with dry_run on, no step changes the comments or the labels
\* of the pull request, whatever add_label and sweep_stale are.
C25_DryRunWritesNothing ==
  [][(lbPc # "idle" /\ lbIn.dryRun)
       => (comments' = comments /\ lbLabels' = lbLabels)]_vars

sizeLabelsOf(labels) == {l \in labels : startsWithSizePrefix(l)}

\* C29: when applySizeLabel has completed for a size, the labels of the pull
\* request that start with "size:" are the one label "size:" and the size,
\* the other labels are those it had; and when that label was already the
\* only one starting with "size:", the labels are left as they were.
C29_OneSizeLabel ==
  (lbPc = "post" /\ lbIn.enableSize /\ lbIn.addLabel) =>
    /\ sizeLabelsOf(lbLabels) = {Label(SIZE_LABEL_PREFIX, lbIn.size)}
    /\ lbLabels \ sizeLabelsOf(lbLabels) = lbCurrent \ sizeLabelsOf(lbCurrent)
    /\ sizeLabelsOf(lbCurrent) = {Label(SIZE_LABEL_PREFIX, lbIn.size)}
         => lbLabels = lbCurrent

\* applySizeLabel has removed two other size labels and added the one of the
\* size, next to labels that do not start with "size:".
C29_TwoStaleLabelsReplaced ==
  /\ lbPc = "post"
  /\ lbIn.enableSize /\ lbIn.addLabel
  /\ Cardinality(sizeLabelsOf(lbCurrent)) = 2
  /\ Label(SIZE_LABEL_PREFIX, lbIn.size) \notin lbCurrent
  /\ Label("resize:", "L") \in lbLabels
  /\ sizeLabelsOf(lbLabels) = {Label(SIZE_LABEL_PREFIX, lbIn.size)}

\* C26: a pull request and its twin without the changed files beyond the
\* first reviewer_max_files get the same ranking, scores and reasons, and
\* the same confidence: the files beyond the cap contribute nothing.
C26_FilesBeyondCapIgnored ==
  (runNo = 2 /\ pc = "done") =>
    /\ ranked = prevResult[1].ranked
    /\ result[1] = prevResult[1].returned

\* C27: no two entries of the final ranking, nor of the suggestions cut from
\* it, have logins that are equal without regard to case.
C27_NoPersonTwice ==
  pc = "done" =>
    /\ \A i, j \in DOMAIN ranked :
         toLowerCase(ranked[i].login) = toLowerCase(ranked[j].login) => i = j
    /\ \A i, j \in DOMAIN result[1].suggestions :
         toLowerCase(result[1].suggestions[i].login)
           = toLowerCase(result[1].suggestions[j].login) => i = j

\* C28: listAllPRFiles terminates and returns, in API order, exactly the first
\* min(maxFiles, total) files of the pull request.  What it has collected is
\* always a prefix of the files of the pull request (nothing skipped, nothing
\* repeated) of at most maxFiles files; it makes at most one request more than
\* the full pages of what it returns, so the loop ends; and every request but
\* the last got a full page of 100 that left the cap unreached: no page is
\* requested after an empty page, a short page or the cap.
C28_FirstFilesInOrder ==
  LET all == prFiles(lfIn.total)
      wanted == Min2(lfIn.maxFiles, lfIn.total)
  IN /\ Len(lfFiles) <= lfIn.maxFiles
     /\ lfFiles = Slice(all, Len(lfFiles))
     /\ Len(lfResps) <= (wanted \div PerPage) + 1
     /\ \A i \in 1..(Len(lfResps) - 1) :
          /\ lfResps[i] = PerPage
          /\ i * PerPage < lfIn.maxFiles
     /\ lfPc = "returned" => lfFiles = Slice(all, wanted)

\* A pull request of more files than the cap, the cap falling inside the second
\* page: the listing has returned after two requests.
C28_CapInsideSecondPage ==
  /\ lfPc = "returned"
  /\ lfIn.maxFiles = PerPage + 1
  /\ lfIn.total > 2 * PerPage
  /\ lfResps = <<PerPage, PerPage>>
  /\ Len(lfFiles) = PerPage + 1

\* The state of the latest submitted review of a login among the reviews of
\* the pull request.
latestStateOf(reviews, login) ==
  LET mine == {i \in DOMAIN reviews :
                 reviews[i].login = login /\ reviews[i].submitted_at # 0}
      last == CHOOSE i \in mine : \A j \in mine : reviews[j].submitted_at <= reviews[i].submitted_at
  IN  IF mine = {} THEN "none" ELSE reviews[last].state

reviewersOf(reviews) == {reviews[i].login : i \in DOMAIN reviews}

\* C30: classifyState reports no blockers (the comment says the PR looks ready
\* to merge) only if the pull request is not a draft, is not known to have
\* merge conflicts, has no failing and no still-running check among those
\* inspected, has no reviewer whose latest review requests changes, has at
\* least one approval, and has been active within the effective stale window.
C30_ReadyOnlyIfUnblocked ==
  (stPc = "analyzed" /\ stAnalysis.lines = <<NothingBlocking>>) =>
    /\ ~stIn.pr.draft
    /\ stIn.pr.mergeable # "false"
    /\ \A i \in DOMAIN stFetched.checkRuns :
         /\ stFetched.checkRuns[i].conclusion # "failure"
         /\ stFetched.checkRuns[i].status = "completed"
    /\ \A u \in reviewersOf(stIn.reviews) :
         latestStateOf(stIn.reviews, u) # "CHANGES_REQUESTED"
    /\ \E u \in reviewersOf(stIn.reviews) : latestStateOf(stIn.reviews, u) = "APPROVED"
    /\ stIn.pr.ageDays < effectiveStaleDays(stIn.staleDays, stIn.override)

====
